---------------------------- MODULE Spec2Model ----------------------------
(***************************************************************************)
(* Model of tools/update_versions: the golangci-lint version updater.      *)
(*                                                                         *)
(*   parser.go     ParseChecksumFile, ExtractPlatformFromFilename,         *)
(*                 isValidSHA256                                           *)
(*   runner.go     Runner.Run, processReleases, loadFromCacheOrDownload    *)
(*   generator.go  PrepareTemplateData, GenerateStarlarkFile,              *)
(*                 organizePlatformsByOS                                   *)
(*   mock_github.go  the GitHubAPI collaborator (list, download)           *)
(*                                                                         *)
(* Text is modelled as sequences of byte values, so that the parser is     *)
(* computed character by character as the code computes it.                *)
(***************************************************************************)
EXTENDS Integers, Sequences, FiniteSets, TLC

(***************************************************************************)
(* State                                                                   *)
(***************************************************************************)
VARIABLES
    pc,            \* where Run is
    err,           \* the error Run returns (NoError: nil)
    failed,        \* the calls to the environment that failed during the run
    cache,         \* the cache directory: file name -> file
    outFile,       \* the file at the output path
    tmpFile,       \* the file at <output>.tmp
    fOpen,         \* GenerateStarlarkFile holds the temporary file open
    outBefore,     \* the output file as it was when Run started
    tmpBefore,     \* the file at <output>.tmp as it was when Run started
    cacheBefore,   \* the cache directory as it was when Run started
    releases,      \* what GetLatestReleases returned
    ri,            \* the index of the release processReleases is at
    versions,      \* processReleases' result so far
    steps,         \* one record per release processed so far
    templateData,  \* PrepareTemplateData's result
    unit,          \* a function under test, its input and its result
    firstRun,      \* what an earlier run of processReleases over the list left
    inv,           \* two invocations of GenerateStarlarkFile on one output path
    paths,         \* the directory they share: path -> inode, 0 for no file
    inodes,        \* inode -> content
    overlap        \* one invocation created <output>.tmp while the other held it

otherRunVars == <<firstRun, inv, paths, inodes, overlap>>

vars == <<pc, err, failed, cache, outFile, tmpFile, fOpen, outBefore, tmpBefore, cacheBefore,
          releases, ri, versions, steps, templateData, unit, otherRunVars>>

(***************************************************************************)
(* Text encoding: a TLA+ string literal as the sequence of its bytes.      *)
(***************************************************************************)
Digits == "0123456789"
Upper == "ABCDEFGHIJKLMNOPQRSTUVWXYZ"
Lower == "abcdefghijklmnopqrstuvwxyz"

IndexIn(str, ch) == CHOOSE i \in 1..Len(str) : SubSeq(str, i, i) = ch
Occurs(str, ch) == \E i \in 1..Len(str) : SubSeq(str, i, i) = ch

\* the byte value of a one-character string (the characters the model uses)
Ord(ch) ==
    IF Occurs(Lower, ch) THEN 96 + IndexIn(Lower, ch)
    ELSE IF Occurs(Digits, ch) THEN 47 + IndexIn(Digits, ch)
    ELSE IF Occurs(Upper, ch) THEN 64 + IndexIn(Upper, ch)
    ELSE IF ch = " " THEN 32
    ELSE IF ch = "-" THEN 45
    ELSE IF ch = "." THEN 46
    ELSE IF ch = "_" THEN 95
    ELSE IF ch = "/" THEN 47
    ELSE IF ch = ":" THEN 58
    ELSE IF ch = "\n" THEN 10
    ELSE IF ch = "\r" THEN 13
    ELSE 9

Bytes(s) == [i \in 1..Len(s) |-> Ord(SubSeq(s, i, i))]

Rep(c, n) == [i \in 1..n |-> c]

(***************************************************************************)
(* parser.go                                                               *)
(***************************************************************************)

\* isValidSHA256 with the length test dropped (a bug the claims must notice).
isValidSHA256_NoLen(hash) ==
    \A i \in 1..Len(hash) :
        LET c == hash[i] IN
        ~ ((c < 48 \/ c > 57) /\ (c < 97 \/ c > 102) /\ (c < 65 \/ c > 70))

\* isValidSHA256: 64 bytes, each in '0'..'9', 'a'..'f' or 'A'..'F'.
isValidSHA256(hash) ==
    /\ Len(hash) = 64
    /\ \A i \in 1..Len(hash) :
        LET c == hash[i] IN
        ~ ((c < 48 \/ c > 57) /\ (c < 97 \/ c > 102) /\ (c < 65 \/ c > 70))

\* unicode.IsSpace on the ASCII range: \t \n \v \f \r and space.
IsSpace(c) == c \in {9, 10, 11, 12, 13, 32}

\* strings.TrimSpace
TrimSpace(s) ==
    LET keep == {i \in 1..Len(s) : ~IsSpace(s[i])} IN
    IF keep = {} THEN <<>>
    ELSE LET lo == CHOOSE i \in keep : \A j \in keep : i <= j
             hi == CHOOSE i \in keep : \A j \in (i + 1)..Len(s) : IsSpace(s[j])
         IN  SubSeq(s, lo, hi)

\* strings.Fields: the maximal runs of non-space bytes, in order.
RECURSIVE FieldsFrom(_, _)
FieldsFrom(s, from) ==
    LET starts == {i \in from..Len(s) : ~IsSpace(s[i])} IN
    IF starts = {} THEN <<>>
    ELSE LET b == CHOOSE i \in starts : \A j \in starts : i <= j
             stops == {i \in b..Len(s) : IsSpace(s[i])}
             e == IF stops = {} THEN Len(s)
                  ELSE (CHOOSE i \in stops : \A j \in stops : i <= j) - 1
         IN  <<SubSeq(s, b, e)>> \o FieldsFrom(s, e + 1)

Fields(s) == FieldsFrom(s, 1)

\* strings.HasSuffix
HasSuffix(s, suffix) ==
    /\ Len(s) >= Len(suffix)
    /\ SubSeq(s, Len(s) - Len(suffix) + 1, Len(s)) = suffix

\* bytes of s starting at position p equal t
HasAt(s, p, t) ==
    /\ p >= 1
    /\ p + Len(t) - 1 <= Len(s)
    /\ SubSeq(s, p, p + Len(t) - 1) = t

\* bufio.MaxScanTokenSize: the largest line bufio.Scanner buffers.
MaxScanTokenSize == 65536

Min(S) == CHOOSE i \in S : \A j \in S : i <= j

\* dropCR of bufio.ScanLines: one trailing \r is not part of the line.
DropCR(line) ==
    IF Len(line) > 0 /\ line[Len(line)] = 13
    THEN SubSeq(line, 1, Len(line) - 1)
    ELSE line

\* scanner.Scan() until it returns false, then scanner.Err(): the lines of
\* content (split at \n, the last one possibly unterminated), or the error
\* bufio.ErrTooLong when the buffer fills up before a line end is seen.
RECURSIVE ScanFrom(_, _, _)
ScanFrom(content, start, acc) ==
    IF start > Len(content) THEN [lines |-> acc, err |-> FALSE]
    ELSE LET window == start..(start + MaxScanTokenSize - 1)
             nls == {i \in start..Len(content) : i \in window /\ content[i] = 10}
         IN  IF nls # {}
             THEN ScanFrom(content, Min(nls) + 1,
                           Append(acc, DropCR(SubSeq(content, start, Min(nls) - 1))))
             ELSE IF Len(content) - start + 1 >= MaxScanTokenSize
             THEN [lines |-> acc, err |-> TRUE]
             ELSE [lines |-> Append(acc, DropCR(SubSeq(content, start, Len(content)))),
                   err |-> FALSE]

\* ScanLines without the scanner.Err() check after the loop
ScanLines_DropError(content) == [lines |-> ScanFrom(content, 1, <<>>).lines, err |-> FALSE]

ScanLines(content) == ScanFrom(content, 1, <<>>)

\* the character classes [\d.] and [\w] of the pattern, as sets of bytes
DigitOrDotClass == (48..57) \cup {46}
WordClass == (48..57) \cup (65..90) \cup (97..122) \cup {95}

\* the last position of the maximal run of bytes of a class starting at
\* position i (i - 1 when the run is empty): a greedy [..]+ of the pattern
RunEnd(s, i, class) ==
    IF i > Len(s) THEN i - 1
    ELSE CHOOSE j \in (i - 1)..Len(s) :
            /\ \A k \in i..j : s[k] \in class
            /\ (j = Len(s) \/ s[j + 1] \notin class)

ToolPrefix == Bytes("golangci-lint-")
TarGz == Bytes(".tar.gz")
Zip == Bytes(".zip")

\* the submatches of golangci-lint-[\d.]+-([\w]+)-([\w]+)\.(tar\.gz|zip)
\* for a match that begins at position p of filename
MatchAt(filename, p) ==
    LET v0 == p + Len(ToolPrefix)
        v1 == RunEnd(filename, v0, DigitOrDotClass)
        o0 == v1 + 2
        o1 == RunEnd(filename, o0, WordClass)
        a0 == o1 + 2
        a1 == RunEnd(filename, a0, WordClass)
    IN  [ok |-> /\ HasAt(filename, p, ToolPrefix)
                /\ v1 >= v0
                /\ HasAt(filename, v1 + 1, Bytes("-"))
                /\ o1 >= o0
                /\ HasAt(filename, o1 + 1, Bytes("-"))
                /\ a1 >= a0
                /\ (HasAt(filename, a1 + 1, TarGz) \/ HasAt(filename, a1 + 1, Zip)),
         OS |-> SubSeq(filename, o0, o1),
         Arch |-> SubSeq(filename, a0, a1)]

\* ExtractPlatformFromFilename: FindStringSubmatch takes the leftmost match
\* anywhere in the filename; err when there is none.
ExtractPlatformFromFilename(filename) ==
    LET at == {p \in 1..Len(filename) : MatchAt(filename, p).ok} IN
    IF at = {} THEN [err |-> TRUE, platform |-> [OS |-> <<>>, Arch |-> <<>>]]
    ELSE LET m == MatchAt(filename, Min(at)) IN
         [err |-> FALSE, platform |-> [OS |-> m.OS, Arch |-> m.Arch]]

\* checksums[platform] = hash on a Go map
MapPut(m, k, v) == [x \in (DOMAIN m) \cup {k} |-> IF x = k THEN v ELSE m[x]]

EmptyMap == [x \in {} |-> <<>>]

\* strings.ToLower on ASCII
ToLower(s) == [k \in 1..Len(s) |-> IF s[k] >= 65 /\ s[k] <= 90 THEN s[k] + 32 ELSE s[k]]

\* the loop body storing the hash in lower case
ParseLine_LowerCase(checksums, rawLine) ==
    LET line == TrimSpace(rawLine)
        parts == Fields(line)
        hash == parts[1]
        filename == parts[Len(parts)]
        ex == ExtractPlatformFromFilename(filename)
    IN  IF line = <<>> THEN checksums
        ELSE IF Len(parts) < 2 THEN checksums
        ELSE IF ~isValidSHA256(hash) THEN checksums
        ELSE IF ~HasSuffix(filename, Bytes(".tar.gz")) /\ ~HasSuffix(filename, Bytes(".zip"))
             THEN checksums
        ELSE IF ex.err THEN checksums
        ELSE MapPut(checksums, ex.platform, ToLower(hash))

\* the loop body without the continue after a failed extraction
ParseLine_KeepOnExtractError(checksums, rawLine) ==
    LET line == TrimSpace(rawLine)
        parts == Fields(line)
        hash == parts[1]
        filename == parts[Len(parts)]
        ex == ExtractPlatformFromFilename(filename)
    IN  IF line = <<>> THEN checksums
        ELSE IF Len(parts) < 2 THEN checksums
        ELSE IF ~isValidSHA256(hash) THEN checksums
        ELSE IF ~HasSuffix(filename, Bytes(".tar.gz")) /\ ~HasSuffix(filename, Bytes(".zip"))
             THEN checksums
        ELSE MapPut(checksums, ex.platform, hash)

\* the loop body keeping the first hash seen for a platform
ParseLine_FirstWins(checksums, rawLine) ==
    LET line == TrimSpace(rawLine)
        parts == Fields(line)
        hash == parts[1]
        filename == parts[Len(parts)]
        ex == ExtractPlatformFromFilename(filename)
    IN  IF line = <<>> THEN checksums
        ELSE IF Len(parts) < 2 THEN checksums
        ELSE IF ~isValidSHA256(hash) THEN checksums
        ELSE IF ~HasSuffix(filename, Bytes(".tar.gz")) /\ ~HasSuffix(filename, Bytes(".zip"))
             THEN checksums
        ELSE IF ex.err THEN checksums
        ELSE IF ex.platform \in DOMAIN checksums THEN checksums
        ELSE MapPut(checksums, ex.platform, hash)

\* the body of the scan loop of ParseChecksumFile for one line
ParseLine(checksums, rawLine) ==
    LET line == TrimSpace(rawLine)
        parts == Fields(line)
        hash == parts[1]
        filename == parts[Len(parts)]
        ex == ExtractPlatformFromFilename(filename)
    IN  IF line = <<>> THEN checksums
        ELSE IF Len(parts) < 2 THEN checksums
        ELSE IF ~isValidSHA256(hash) THEN checksums
        ELSE IF ~HasSuffix(filename, Bytes(".tar.gz")) /\ ~HasSuffix(filename, Bytes(".zip"))
             THEN checksums
        ELSE IF ex.err THEN checksums
        ELSE MapPut(checksums, ex.platform, hash)

RECURSIVE ParseLines(_, _, _)
ParseLines(lines, i, checksums) ==
    IF i > Len(lines) THEN checksums
    ELSE ParseLines(lines, i + 1, ParseLine(checksums, lines[i]))

\* ParseChecksumFile: (checksums, err)
ParseChecksumFile(content) ==
    LET sc == ScanLines(content) IN
    IF sc.err THEN [checksums |-> EmptyMap, err |-> TRUE]
    ELSE [checksums |-> ParseLines(sc.lines, 1, EmptyMap), err |-> FALSE]

(***************************************************************************)
(* Checksum manifests the model feeds to the pipeline: a manifest is a     *)
(* sequence of lines of LineText, each terminated by \n.                   *)
(***************************************************************************)
HashC == Rep(Ord("c"), 64)
HashMixed == Rep(Ord("A"), 32) \o Rep(Ord("f"), 32)
HashD == Rep(Ord("d"), 64)

LineText ==
    [linux    |-> HashC \o Bytes("  golangci-lint-2.6.1-linux-amd64.tar.gz"),
     windows  |-> HashMixed \o Bytes("  golangci-lint-2.6.1-windows-386.zip"),
     linuxzip |-> HashD \o Bytes(" golangci-lint-2.6.1-linux-amd64.zip"),
     short    |-> Rep(Ord("c"), 63) \o Bytes("  golangci-lint-2.6.1-linux-arm64.tar.gz"),
     long     |-> Rep(Ord("c"), 65) \o Bytes("  golangci-lint-2.6.1-darwin-arm64.tar.gz"),
     nonhex   |-> Rep(Ord("c"), 63) \o Bytes("g  golangci-lint-2.6.1-darwin-amd64.tar.gz"),
     upperG   |-> Rep(Ord("F"), 63) \o Bytes("G  golangci-lint-2.6.1-freebsd-amd64.tar.gz"),
     bad      |-> Bytes("bad line"),
     onetoken |-> HashC,
     blank    |-> Bytes("   "),
     deb      |-> HashC \o Bytes("  golangci-lint-2.6.1-linux-amd64.deb"),
     noprefix |-> HashC \o Bytes("  checksums-linux-amd64.tar.gz"),
     toolong  |-> Rep(Ord("A"), MaxScanTokenSize),
     maxline  |-> Rep(Ord("A"), MaxScanTokenSize - 1),
     longvalid |-> HashC \o Rep(32, MaxScanTokenSize)
                        \o Bytes("golangci-lint-2.6.1-linux-amd64.tar.gz")]

LineIds == DOMAIN LineText

RECURSIVE ManifestBytes(_)
ManifestBytes(m) ==
    IF m = <<>> THEN <<>>
    ELSE LineText[Head(m)] \o <<10>> \o ManifestBytes(Tail(m))

\* the manifests the download collaborator and the cache may hold
ManifestPool == {<<"linux">>, <<"windows">>, <<"bad">>, <<"toolong">>}


(***************************************************************************)
(* runner.go                                                               *)
(***************************************************************************)
MaxReleases == 2

Tags == {"", "v2.6.1", "v2.6.0"}
NonEmptyTags == Tags \ {""}

RECURSIVE SeqsUpTo(_, _)
SeqsUpTo(S, n) ==
    IF n = 0 THEN {<<>>}
    ELSE LET shorter == SeqsUpTo(S, n - 1) IN
         shorter \cup {Append(q, x) : q \in {r \in shorter : Len(r) = n - 1}, x \in S}

ReleaseLists == SeqsUpTo(Tags, MaxReleases)

NoError == ""

\* filepath.IsAbs on a Unix path
IsAbs(path) == Len(path) > 0 /\ SubSeq(path, 1, 1) = "/"

\* the components of a path between its slashes
RECURSIVE SplitFrom(_, _)
SplitFrom(path, from) ==
    LET slashes == {k \in from..Len(path) : SubSeq(path, k, k) = "/"} IN
    IF slashes = {} THEN <<SubSeq(path, from, Len(path))>>
    ELSE <<SubSeq(path, from, Min(slashes) - 1)>> \o SplitFrom(path, Min(slashes) + 1)

\* filepath.Clean, component by component: empty and "." components go, a
\* ".." takes the component before it with it (at the root it just goes)
RECURSIVE CleanParts(_, _, _)
CleanParts(parts, acc, rooted) ==
    IF parts = <<>> THEN acc
    ELSE LET c == Head(parts) IN
         IF c = "" \/ c = "." THEN CleanParts(Tail(parts), acc, rooted)
         ELSE IF c = ".."
         THEN IF Len(acc) > 0 /\ acc[Len(acc)] # ".."
              THEN CleanParts(Tail(parts), SubSeq(acc, 1, Len(acc) - 1), rooted)
              ELSE IF rooted THEN CleanParts(Tail(parts), acc, rooted)
              ELSE CleanParts(Tail(parts), Append(acc, c), rooted)
         ELSE CleanParts(Tail(parts), Append(acc, c), rooted)

RECURSIVE JoinParts(_)
JoinParts(parts) ==
    IF parts = <<>> THEN ""
    ELSE IF Len(parts) = 1 THEN parts[1]
    ELSE parts[1] \o "/" \o JoinParts(Tail(parts))

Clean(path) ==
    LET body == JoinParts(CleanParts(SplitFrom(path, 1), <<>>, IsAbs(path)))
        out == IF IsAbs(path) THEN "/" \o body ELSE body
    IN  IF out = "" THEN "." ELSE out

\* filepath.Join(a, b): empty elements are ignored, the result is cleaned
FilepathJoin(a, b) ==
    IF a = "" /\ b = "" THEN ""
    ELSE IF a = "" THEN Clean(b)
    ELSE IF b = "" THEN Clean(a)
    ELSE Clean(a \o "/" \o b)

\* resolveAbsolutePaths that joins every path onto the workspace root
resolveAbsolutePaths_AlwaysJoin(config) ==
    [absCacheDir |-> FilepathJoin(config.WorkspaceRoot, config.CacheDir),
     absOutputFile |-> FilepathJoin(config.WorkspaceRoot, config.OutputFile)]

\* Runner.resolveAbsolutePaths
resolveAbsolutePaths(config) ==
    [absCacheDir |-> IF IsAbs(config.CacheDir) THEN config.CacheDir
                     ELSE FilepathJoin(config.WorkspaceRoot, config.CacheDir),
     absOutputFile |-> IF IsAbs(config.OutputFile) THEN config.OutputFile
                       ELSE FilepathJoin(config.WorkspaceRoot, config.OutputFile)]

AbsentFile == [exists |-> FALSE, data |-> <<>>]
FileOf(data) == [exists |-> TRUE, data |-> data]

\* filepath.Join(cacheDir, fmt.Sprintf("%s.txt", tag)), relative to cacheDir
CacheFileName(tag) == tag \o ".txt"

\* the asset URL with every leading v stripped from the version
AssetURL_StripAllV(tag) ==
    LET nonV == {k \in 1..Len(tag) : SubSeq(tag, k, k) # "v"}
        version == IF nonV = {} THEN ""
                   ELSE SubSeq(tag, CHOOSE k \in nonV : \A j \in nonV : k <= j, Len(tag))
    IN  "https://github.com/golangci/golangci-lint/releases/download/" \o tag
            \o "/golangci-lint-" \o version \o "-checksums.txt"

\* the asset URL loadFromCacheOrDownload requests for a tag
AssetURL(tag) ==
    LET version == IF Len(tag) > 0 /\ SubSeq(tag, 1, 1) = "v"
                   THEN SubSeq(tag, 2, Len(tag))
                   ELSE tag
    IN  "https://github.com/golangci/golangci-lint/releases/download/" \o tag
            \o "/golangci-lint-" \o version \o "-checksums.txt"

\* a response of GitHubAPI.DownloadAsset
DownloadResponses ==
    {[err |-> TRUE, data |-> <<>>]} \cup {[err |-> FALSE, data |-> m] : m \in ManifestPool}

\* what os.WriteFile leaves behind: the whole data, nothing (the open failed),
\* or a truncated file (the open succeeded, the write did not)
WriteOutcomes == {"ok", "fail", "partial"}

FileContents == ManifestPool \cup {<<>>}

\* ParseChecksumFile on the bytes of a file or of a download
Parse(data) == ParseChecksumFile(ManifestBytes(data))

ParsePairs == {<<m, Parse(m)>> : m \in FileContents}

ParseOf == [m \in FileContents |-> (CHOOSE p \in ParsePairs : p[1] = m)[2]]

\* loadFromCacheOrDownload that goes to the network even on a dir hit
loadFromCacheOrDownload_AlwaysDownload(dir, tag, readOK, resp, write) ==
    LET cacheFile == CacheFileName(tag) IN
    IF resp.err
    THEN [data |-> <<>>, err |-> "failed to download checksum file",
          cache |-> dir, called |-> TRUE]
    ELSE [data |-> resp.data, err |-> NoError,
          cache |-> IF write = "ok" THEN [dir EXCEPT ![cacheFile] = FileOf(resp.data)]
                    ELSE dir,
          called |-> TRUE]

\* loadFromCacheOrDownload that returns the os.WriteFile error
loadFromCacheOrDownload_WriteErrorFatal(dir, tag, readOK, resp, write) ==
    LET cacheFile == CacheFileName(tag) IN
    IF dir[cacheFile].exists
    THEN IF readOK
         THEN [data |-> dir[cacheFile].data, err |-> NoError,
               cache |-> dir, called |-> FALSE]
         ELSE [data |-> <<>>, err |-> "failed to read cache file",
               cache |-> dir, called |-> FALSE]
    ELSE IF resp.err
    THEN [data |-> <<>>, err |-> "failed to download checksum file",
          cache |-> dir, called |-> TRUE]
    ELSE IF write = "ok"
    THEN [data |-> resp.data, err |-> NoError,
          cache |-> [dir EXCEPT ![cacheFile] = FileOf(resp.data)], called |-> TRUE]
    ELSE [data |-> <<>>, err |-> "failed to save to cache",
          cache |-> IF write = "partial" THEN [dir EXCEPT ![cacheFile] = FileOf(<<>>)]
                    ELSE dir,
          called |-> TRUE]

\* loadFromCacheOrDownload that creates the cache file before it downloads
loadFromCacheOrDownload_TouchOnFailure(dir, tag, readOK, resp, write) ==
    LET cacheFile == CacheFileName(tag) IN
    IF dir[cacheFile].exists
    THEN IF readOK
         THEN [data |-> dir[cacheFile].data, err |-> NoError,
               cache |-> dir, called |-> FALSE]
         ELSE [data |-> <<>>, err |-> "failed to read cache file",
               cache |-> dir, called |-> FALSE]
    ELSE IF resp.err
    THEN [data |-> <<>>, err |-> "failed to download checksum file",
          cache |-> [dir EXCEPT ![cacheFile] = FileOf(<<>>)], called |-> TRUE]
    ELSE [data |-> resp.data, err |-> NoError,
          cache |-> IF write = "ok" THEN [dir EXCEPT ![cacheFile] = FileOf(resp.data)]
                    ELSE IF write = "partial" THEN [dir EXCEPT ![cacheFile] = FileOf(<<>>)]
                    ELSE dir,
          called |-> TRUE]

\* loadFromCacheOrDownload that does not save what it downloaded
loadFromCacheOrDownload_NoSave(dir, tag, readOK, resp, write) ==
    LET cacheFile == CacheFileName(tag) IN
    IF dir[cacheFile].exists
    THEN IF readOK
         THEN [data |-> dir[cacheFile].data, err |-> NoError,
               cache |-> dir, called |-> FALSE]
         ELSE [data |-> <<>>, err |-> "failed to read cache file",
               cache |-> dir, called |-> FALSE]
    ELSE IF resp.err
    THEN [data |-> <<>>, err |-> "failed to download checksum file",
          cache |-> dir, called |-> TRUE]
    ELSE [data |-> resp.data, err |-> NoError, cache |-> dir, called |-> TRUE]

\* loadFromCacheOrDownload that downloads when the cache file cannot be read
loadFromCacheOrDownload_FallbackOnReadError(dir, tag, readOK, resp, write) ==
    LET cacheFile == CacheFileName(tag) IN
    IF dir[cacheFile].exists /\ readOK
    THEN [data |-> dir[cacheFile].data, err |-> NoError,
          cache |-> dir, called |-> FALSE]
    ELSE IF resp.err
    THEN [data |-> <<>>, err |-> "failed to download checksum file",
          cache |-> dir, called |-> TRUE]
    ELSE [data |-> resp.data, err |-> NoError,
          cache |-> IF write = "ok" THEN [dir EXCEPT ![cacheFile] = FileOf(resp.data)]
                    ELSE IF write = "partial" THEN [dir EXCEPT ![cacheFile] = FileOf(<<>>)]
                    ELSE dir,
          called |-> TRUE]

\* loadFromCacheOrDownload(cacheFile, tag) on the cache directory dir.
\* readOK: os.ReadFile succeeds; resp: what DownloadAsset answers if it is
\* asked; write: what os.WriteFile does.  called: DownloadAsset was invoked.
loadFromCacheOrDownload(dir, tag, readOK, resp, write) ==
    LET cacheFile == CacheFileName(tag) IN
    IF dir[cacheFile].exists
    THEN IF readOK
         THEN [data |-> dir[cacheFile].data, err |-> NoError,
               cache |-> dir, called |-> FALSE]
         ELSE [data |-> <<>>, err |-> "failed to read cache file",
               cache |-> dir, called |-> FALSE]
    ELSE IF resp.err
    THEN [data |-> <<>>, err |-> "failed to download checksum file",
          cache |-> dir, called |-> TRUE]
    ELSE [data |-> resp.data, err |-> NoError,
          cache |-> IF write = "ok" THEN [dir EXCEPT ![cacheFile] = FileOf(resp.data)]
                    ELSE IF write = "partial" THEN [dir EXCEPT ![cacheFile] = FileOf(<<>>)]
                    ELSE dir,
          called |-> TRUE]

(***************************************************************************)
(* generator.go                                                            *)
(***************************************************************************)

\* s < t for Go strings (byte-wise lexicographic order)
LexLess(s, t) ==
    \E k \in 1..Len(t) :
        /\ k - 1 <= Len(s)
        /\ \A j \in 1..(k - 1) : s[j] = t[j]
        /\ (k > Len(s) \/ s[k] < t[k])

\* sort.Strings on a set of keys
RECURSIVE SortStrings(_)
SortStrings(keys) ==
    IF keys = {} THEN <<>>
    ELSE LET least == CHOOSE k \in keys : \A o \in keys \ {k} : LexLess(k, o)
         IN  <<least>> \o SortStrings(keys \ {least})

\* sort.Strings on a slice, as a sort that moves the keys: x is put before
\* the first key of the sorted slice that is not less than it
RECURSIVE InsertKey(_, _)
InsertKey(sorted, x) ==
    IF sorted = <<>> THEN <<x>>
    ELSE IF LexLess(Head(sorted), x) THEN <<Head(sorted)>> \o InsertKey(Tail(sorted), x)
    ELSE <<x>> \o sorted

RECURSIVE SortSlice(_)
SortSlice(keys) ==
    IF keys = <<>> THEN <<>>
    ELSE InsertKey(SortSlice(SubSeq(keys, 1, Len(keys) - 1)), keys[Len(keys)])

\* SortedOSKeys / SortedArchKeys without the call of sort.Strings
SortedKeysIterated_NoSort(order) == order

\* the body shared by SortedOSKeys and SortedArchKeys: the keys are appended
\* in the order `for k := range m` yields them, then sorted
SortedKeysIterated(order) == SortSlice(order)

SortedArchKeys(m) == SortStrings(DOMAIN m)
SortedOSKeys(m) == SortStrings(DOMAIN m)

\* the loop body of organizePlatformsByOS with a new inner map on every pass
PutPlatform_FreshMap(result, platform, hash) ==
    MapPut(result, platform.OS, MapPut(EmptyMap, platform.Arch, hash))

\* the loop body of organizePlatformsByOS: the inner map of platform.OS is
\* made when result has none, then result[platform.OS][platform.Arch] = hash
PutPlatform(result, platform, hash) ==
    LET inner == IF platform.OS \in DOMAIN result THEN result[platform.OS] ELSE EmptyMap
    IN  MapPut(result, platform.OS, MapPut(inner, platform.Arch, hash))

\* `for platform, hash := range checksums` yielding the platforms in order
RECURSIVE OrganizeFrom(_, _, _, _)
OrganizeFrom(checksums, order, i, result) ==
    IF i > Len(order) THEN result
    ELSE OrganizeFrom(checksums, order, i + 1,
                      PutPlatform(result, order[i], checksums[order[i]]))

organizePlatformsIterated(checksums, order) == OrganizeFrom(checksums, order, 1, EmptyMap)

\* some order in which ranging over a map with these keys yields them
RECURSIVE SomeOrder(_)
SomeOrder(ks) ==
    IF ks = {} THEN <<>>
    ELSE LET k == CHOOSE x \in ks : TRUE IN <<k>> \o SomeOrder(ks \ {k})

\* organizePlatformsByOS: OS -> Arch -> sha256
organizePlatformsByOS(checksums) ==
    organizePlatformsIterated(checksums, SomeOrder(DOMAIN checksums))

\* PrepareTemplateData that takes the default from the last version
PrepareTemplateData_LastIsDefault(vs) ==
    IF Len(vs) = 0
    THEN [DefaultVersion |-> "", Versions |-> <<>>]
    ELSE [DefaultVersion |-> vs[Len(vs)].Tag,
          Versions |-> [j \in 1..Len(vs) |->
                           [Tag |-> vs[j].Tag,
                            ChecksumsByOS |-> organizePlatformsByOS(vs[j].Checksums)]]]

\* PrepareTemplateData that lists the versions from the last to the first
PrepareTemplateData_Reversed(vs) ==
    IF Len(vs) = 0
    THEN [DefaultVersion |-> "", Versions |-> <<>>]
    ELSE [DefaultVersion |-> vs[1].Tag,
          Versions |-> [j \in 1..Len(vs) |->
                           [Tag |-> vs[Len(vs) + 1 - j].Tag,
                            ChecksumsByOS |->
                                organizePlatformsByOS(vs[Len(vs) + 1 - j].Checksums)]]]

\* PrepareTemplateData (GeneratedAt, the wall-clock time of the call, is left
\* out: no modelled operation reads it)
PrepareTemplateData(vs) ==
    IF Len(vs) = 0
    THEN [DefaultVersion |-> "", Versions |-> <<>>]
    ELSE [DefaultVersion |-> vs[1].Tag,
          Versions |-> [j \in 1..Len(vs) |->
                           [Tag |-> vs[j].Tag,
                            ChecksumsByOS |-> organizePlatformsByOS(vs[j].Checksums)]]]

RECURSIVE Flatten(_)
Flatten(ss) == IF ss = <<>> THEN <<>> ELSE Head(ss) \o Flatten(Tail(ss))

\* the (os, arch, hash) triples of one version in the order the template
\* ranges over them: SortedOSKeys, then SortedArchKeys within each OS
VersionEntries(vd) ==
    LET oss == SortedOSKeys(vd.ChecksumsByOS)
        OSEntries(os) ==
            LET archs == SortedArchKeys(vd.ChecksumsByOS[os]) IN
            [k \in 1..Len(archs) |-> <<os, archs[k], vd.ChecksumsByOS[os][archs[k]]>>]
    IN  Flatten([k \in 1..Len(oss) |-> OSEntries(oss[k])])

Chunk(kind, tag, entries) == [kind |-> kind, tag |-> tag, entries |-> entries]

\* the text template.bzl.tmpl renders for data, as the pieces written in
\* turn: the generated-file marker, DEFAULT_VERSION, one entry of
\* GOLANGCI_VERSIONS per version, the accessor function
Render(data) ==
    <<Chunk("marker", "", <<>>), Chunk("default", data.DefaultVersion, <<>>)>>
    \o [j \in 1..Len(data.Versions) |->
           Chunk("version", data.Versions[j].Tag, VersionEntries(data.Versions[j]))]
    \o <<Chunk("accessor", "", <<>>)>>

\* an output file or temporary file left by an earlier run
OldArtifact == <<Chunk("old", "", <<>>)>>

CacheFiles == {CacheFileName(t) : t \in NonEmptyTags}

\* what the cache directory may hold before a run
CachePool == {<<"windows">>, <<"bad">>}

NoTemplateData == [DefaultVersion |-> "", Versions |-> <<>>]
NoUnit == [op |-> "none", input |-> <<>>, output |-> <<>>, done |-> FALSE]

\* no earlier run of processReleases
NoFirstRun ==
    [done |-> FALSE, versions |-> <<>>, steps |-> <<>>,
     cache |-> [f \in CacheFiles |-> AbsentFile]]

\* a single run: no earlier run and no concurrent invocation
SingleRun ==
    /\ firstRun = NoFirstRun
    /\ inv = <<>>
    /\ paths = <<>>
    /\ inodes = <<>>
    /\ overlap = FALSE

Init ==
    /\ pc = "start"
    /\ err = NoError
    /\ failed = {}
    /\ cache \in [CacheFiles -> {AbsentFile} \cup {FileOf(m) : m \in CachePool}]
    /\ outFile \in {AbsentFile, FileOf(OldArtifact)}
    /\ tmpFile \in {AbsentFile, FileOf(OldArtifact)}
    /\ fOpen = FALSE
    /\ outBefore = outFile
    /\ tmpBefore = tmpFile
    /\ cacheBefore = cache
    /\ releases = <<>>
    /\ ri = 1
    /\ versions = <<>>
    /\ steps = <<>>
    /\ templateData = NoTemplateData
    /\ unit = NoUnit
    /\ SingleRun

\* Run returns e
Return(e) ==
    /\ pc' = "done"
    /\ err' = e

(***************************************************************************)
(* Runner.Run                                                              *)
(***************************************************************************)

\* os.MkdirAll(absCacheDir)
MkdirCache ==
    /\ pc = "start"
    /\ \E ok \in BOOLEAN :
        IF ok THEN pc' = "mkdirOutput" /\ UNCHANGED <<err, failed>>
        ELSE Return("failed to create cache directory")
             /\ failed' = failed \cup {"mkdirCache"}
    /\ UNCHANGED <<cache, outFile, tmpFile, fOpen, outBefore, tmpBefore, cacheBefore, releases, ri,
                   versions, steps, templateData, unit, otherRunVars>>

\* os.MkdirAll(filepath.Dir(absOutputFile))
MkdirOutput ==
    /\ pc = "mkdirOutput"
    /\ \E ok \in BOOLEAN :
        IF ok THEN pc' = "fetch" /\ UNCHANGED <<err, failed>>
        ELSE Return("failed to create output directory")
             /\ failed' = failed \cup {"mkdirOutput"}
    /\ UNCHANGED <<cache, outFile, tmpFile, fOpen, outBefore, tmpBefore, cacheBefore, releases, ri,
                   versions, steps, templateData, unit, otherRunVars>>

\* r.client.GetLatestReleases(ctx, r.config.Count): an error, or a list
GetLatestReleases ==
    /\ pc = "fetch"
    /\ \/ /\ Return("failed to fetch releases")
          /\ failed' = failed \cup {"getReleases"}
          /\ UNCHANGED releases
       \/ /\ \E rs \in ReleaseLists : releases' = rs
          /\ pc' = "process"
          /\ UNCHANGED <<err, failed>>
    /\ UNCHANGED <<cache, outFile, tmpFile, fOpen, outBefore, tmpBefore, cacheBefore, ri,
                   versions, steps, templateData, unit, otherRunVars>>

(***************************************************************************)
(* Runner.processReleases: one iteration of the loop per step              *)
(***************************************************************************)
NoResponse == [err |-> TRUE, data |-> <<>>]

\* the loop body after resolution, putting the newest version first
AppendVersion_Prepend(vs, tag, loadErr, parsed) ==
    IF loadErr # NoError THEN vs
    ELSE IF parsed.err THEN vs
    ELSE <<[Tag |-> tag, Checksums |-> parsed.checksums]>> \o vs

\* the loop body after resolution, dropping versions without checksums
AppendVersion_DropEmpty(vs, tag, loadErr, parsed) ==
    IF loadErr # NoError THEN vs
    ELSE IF parsed.err THEN vs
    ELSE IF DOMAIN parsed.checksums = {} THEN vs
    ELSE Append(vs, [Tag |-> tag, Checksums |-> parsed.checksums])

\* the loop body after resolution, recording a failed release as an empty one
AppendVersion_KeepFailed(vs, tag, loadErr, parsed) ==
    Append(vs, [Tag |-> tag, Checksums |-> parsed.checksums])

\* the loop body after resolution: skip the release on a resolution or parse
\* error, append {Tag, Checksums} otherwise
AppendVersion(vs, tag, loadErr, parsed) ==
    IF loadErr # NoError THEN vs
    ELSE IF parsed.err THEN vs
    ELSE Append(vs, [Tag |-> tag, Checksums |-> parsed.checksums])

\* the range loop taking the releases from the end of the list
CurrentRelease_Reversed(rs, n) == rs[Len(rs) + 1 - n]

\* the n-th element `for _, release := range releases` yields
CurrentRelease(rs, n) == rs[n]

\* the loop leaving the release list at a release with an empty tag
AfterRelease_BreakOnEmpty(rs, n) == IF rs[n] = "" THEN Len(rs) + 1 ELSE n + 1

\* where the range loop goes after the n-th release, skipped (continue) or
\* not: to the next one
AfterRelease(rs, n) == n + 1

ProcessRelease ==
    /\ pc = "process"
    /\ ri <= Len(releases)
    /\ LET tag == CurrentRelease(releases, ri) IN
       IF tag = ""
       THEN /\ steps' = Append(steps,
                   [tag |-> tag, hit |-> FALSE, cached |-> <<>>, readOK |-> FALSE,
                    called |-> FALSE, url |-> "", resp |-> NoResponse,
                    write |-> "fail", loadErr |-> NoError, data |-> <<>>,
                    parseErr |-> FALSE, appended |-> FALSE])
            /\ UNCHANGED <<cache, versions>>
       ELSE \E readOK \in BOOLEAN, resp \in DownloadResponses, write \in WriteOutcomes :
            LET file == cache[CacheFileName(tag)]
                r == loadFromCacheOrDownload(cache, tag, readOK, resp, write)
                parsed == ParseOf[r.data]
                vs == AppendVersion(versions, tag, r.err, parsed)
            IN  /\ cache' = r.cache
                /\ versions' = vs
                /\ steps' = Append(steps,
                       [tag |-> tag, hit |-> file.exists, cached |-> file.data,
                        readOK |-> file.exists /\ readOK,
                        called |-> r.called,
                        url |-> IF r.called THEN AssetURL(tag) ELSE "",
                        resp |-> IF r.called THEN resp ELSE NoResponse,
                        write |-> IF r.called /\ ~resp.err THEN write ELSE "fail",
                        loadErr |-> r.err, data |-> r.data,
                        parseErr |-> r.err = NoError /\ parsed.err,
                        appended |-> vs # versions])
    /\ ri' = AfterRelease(releases, ri)
    /\ UNCHANGED <<pc, err, failed, outFile, tmpFile, fOpen, outBefore, tmpBefore, cacheBefore,
                   releases, templateData, unit, otherRunVars>>

\* the fatal test of Run, off by one
NoVersions_OffByOne(vs) == Len(vs) <= 1

\* len(versions) == 0 in Run
NoVersions(vs) == Len(vs) = 0

\* Run creating the temporary file before the fatal "no versions" test
CheckVersions_CreateFirst ==
    /\ pc = "process"
    /\ ri > Len(releases)
    /\ tmpFile' = FileOf(<<>>)
    /\ IF NoVersions(versions)
       THEN /\ Return("no versions were successfully processed")
            /\ UNCHANGED templateData
       ELSE /\ templateData' = PrepareTemplateData(versions)
            /\ pc' = "generate"
            /\ UNCHANGED err
    /\ UNCHANGED <<failed, cache, outFile, fOpen, outBefore, tmpBefore, cacheBefore, releases,
                   ri, versions, steps, unit, otherRunVars>>

\* Run after processReleases returned: the fatal "no versions" test, then
\* PrepareTemplateData
CheckVersions ==
    /\ pc = "process"
    /\ ri > Len(releases)
    /\ IF NoVersions(versions)
       THEN /\ Return("no versions were successfully processed")
            /\ UNCHANGED templateData
       ELSE /\ templateData' = PrepareTemplateData(versions)
            /\ pc' = "generate"
            /\ UNCHANGED err
    /\ UNCHANGED <<failed, cache, outFile, tmpFile, fOpen, outBefore, tmpBefore, cacheBefore, releases, ri,
                   versions, steps, unit, otherRunVars>>

(***************************************************************************)
(* GenerateStarlarkFile, one call to the file system per step              *)
(***************************************************************************)

\* a cleanup that leaves the temporary file where it is
Removed_Never(file, ok) == file

\* _ = os.Remove(tempFile): best effort, the result is ignored.  The file
\* after the call, ok telling whether the removal succeeded.
Removed(file, ok) == IF ok THEN AbsentFile ELSE file

\* template ParseFS, then os.Create(tempFile)
CreateTemp ==
    /\ pc = "generate"
    /\ \E outcome \in {"ok", "parseFails", "createFails"} :
        CASE outcome = "ok" ->
                /\ tmpFile' = FileOf(<<>>)
                /\ fOpen' = TRUE
                /\ pc' = "execute"
                /\ UNCHANGED <<err, failed>>
          [] outcome = "parseFails" ->
                /\ Return("failed to generate output file: failed to parse template")
                /\ failed' = failed \cup {"parseTemplate"}
                /\ UNCHANGED <<tmpFile, fOpen>>
          [] outcome = "createFails" ->
                /\ Return("failed to generate output file: failed to create temp file")
                /\ failed' = failed \cup {"createTemp"}
                /\ UNCHANGED <<tmpFile, fOpen>>
    /\ UNCHANGED <<cache, outFile, outBefore, tmpBefore, cacheBefore, releases, ri, versions, steps,
                   templateData, unit, otherRunVars>>

\* tmpl.Execute(f, data): the next piece of the text is written to f, or the
\* execution fails and the temporary file is removed
ExecuteTemplate ==
    /\ pc = "execute"
    /\ LET text == Render(templateData)
           n == Len(tmpFile.data)
       IN  \/ /\ tmpFile' = FileOf(Append(tmpFile.data, text[n + 1]))
              /\ pc' = IF n + 1 = Len(text) THEN "close" ELSE "execute"
              /\ UNCHANGED <<err, failed, fOpen>>
           \/ /\ \E removed \in BOOLEAN :
                    /\ tmpFile' = Removed(tmpFile, removed)
                    /\ failed' = failed \cup {"execute"}
                                        \cup (IF removed THEN {} ELSE {"remove"})
              /\ Return("failed to generate output file: failed to execute template")
              /\ fOpen' = FALSE
    /\ UNCHANGED <<cache, outFile, outBefore, tmpBefore, cacheBefore, releases, ri, versions, steps,
                   templateData, unit, otherRunVars>>

\* f.Close() with its error ignored: the rename goes ahead
CloseTemp_IgnoreError ==
    /\ pc = "close"
    /\ fOpen' = FALSE
    /\ \/ /\ pc' = "rename"
          /\ UNCHANGED <<err, failed, tmpFile>>
       \/ /\ pc' = "rename"
          /\ failed' = failed \cup {"close"}
          /\ UNCHANGED <<err, tmpFile>>
    /\ UNCHANGED <<cache, outFile, outBefore, tmpBefore, cacheBefore, releases, ri, versions, steps,
                   templateData, unit, otherRunVars>>

\* f.Close()
CloseTemp ==
    /\ pc = "close"
    /\ fOpen' = FALSE
    /\ \/ /\ pc' = "rename"
          /\ UNCHANGED <<err, failed, tmpFile>>
       \/ /\ \E removed \in BOOLEAN :
                /\ tmpFile' = Removed(tmpFile, removed)
                /\ failed' = failed \cup {"close"}
                                    \cup (IF removed THEN {} ELSE {"remove"})
          /\ Return("failed to generate output file: failed to close temp file")
    /\ UNCHANGED <<cache, outFile, outBefore, tmpBefore, cacheBefore, releases, ri, versions, steps,
                   templateData, unit, otherRunVars>>

\* os.Rename(tempFile, outputPath)
RenameTemp ==
    /\ pc = "rename"
    /\ \/ /\ outFile' = tmpFile
          /\ tmpFile' = AbsentFile
          /\ Return(NoError)
          /\ UNCHANGED failed
       \/ /\ \E removed \in BOOLEAN :
                /\ tmpFile' = Removed(tmpFile, removed)
                /\ failed' = failed \cup {"rename"}
                                    \cup (IF removed THEN {} ELSE {"remove"})
          /\ Return("failed to generate output file: failed to rename temp file")
          /\ UNCHANGED outFile
    /\ UNCHANGED <<cache, fOpen, outBefore, tmpBefore, cacheBefore, releases, ri, versions, steps,
                   templateData, unit, otherRunVars>>

Next ==
    \/ MkdirCache
    \/ MkdirOutput
    \/ GetLatestReleases
    \/ ProcessRelease
    \/ CheckVersions
    \/ CreateTemp
    \/ ExecuteTemplate
    \/ CloseTemp
    \/ RenameTemp

Spec == Init /\ [][Next]_vars

(***************************************************************************)
(* The module extension that consumes the generated file                   *)
(***************************************************************************)
ExtVersions == {"v2.6.1", "v2.6.0"}

TagBytes == [t \in ExtVersions |-> Bytes(t)]

\* version[1:] if version.startswith("v") else version
version_no_v(version) ==
    IF Len(version) > 0 /\ version[1] = 118 THEN Tail(version) ELSE version

\* the archives of a release as its checksum manifest lists them: two
\* .tar.gz archives and the .zip archive of the windows build
ReleaseAssets ==
    <<[os |-> "linux", arch |-> "amd64", ext |-> ".tar.gz", hex |-> "a"],
      [os |-> "darwin", arch |-> "arm64", ext |-> ".tar.gz", hex |-> "b"],
      [os |-> "windows", arch |-> "amd64", ext |-> ".zip", hex |-> "c"]>>

AssetHashes ==
    [t \in ExtVersions |->
        [k \in DOMAIN ReleaseAssets |->
            Rep(Ord(ReleaseAssets[k].hex), 63) \o <<TagBytes[t][Len(TagBytes[t])]>>]]

AssetNames ==
    [t \in ExtVersions |->
        [k \in DOMAIN ReleaseAssets |->
            ToolPrefix \o version_no_v(TagBytes[t]) \o <<45>> \o Bytes(ReleaseAssets[k].os)
                \o <<45>> \o Bytes(ReleaseAssets[k].arch) \o Bytes(ReleaseAssets[k].ext)]]

\* the checksum manifest of release t
RECURSIVE ReleaseManifestFrom(_, _)
ReleaseManifestFrom(t, k) ==
    IF k > Len(ReleaseAssets) THEN <<>>
    ELSE AssetHashes[t][k] \o <<32, 32>> \o AssetNames[t][k] \o <<10>>
            \o ReleaseManifestFrom(t, k + 1)

\* the Versions the updater makes of the releases ts, newest first
VersionsOf(ts) ==
    [j \in 1..Len(ts) |->
        [Tag |-> ts[j],
         Checksums |-> ParseChecksumFile(ReleaseManifestFrom(ts[j], 1)).checksums]]

\* the data of the generated files the extension may load
GeneratedFiles ==
    {PrepareTemplateData(VersionsOf(ts)) : ts \in {<<"v2.6.1">>, <<"v2.6.1", "v2.6.0">>}}

\* get_golangci_version_info(version) of the generated file rendered from
\* data; version "" stands for None
get_golangci_version_info(data, version) ==
    LET v == IF version = "" THEN data.DefaultVersion ELSE version
        known == {j \in 1..Len(data.Versions) : data.Versions[j].Tag = v}
    IN  IF known = {}
        THEN [failed |-> TRUE, version |-> v, checksums |-> EmptyMap]
        ELSE [failed |-> FALSE, version |-> v,
              checksums |-> data.Versions[CHOOSE j \in known : \A i \in known : i <= j]
                                .ChecksumsByOS]

os_map ==
    (Bytes("linux") :> Bytes("linux")) @@ (Bytes("mac os x") :> Bytes("darwin"))
        @@ (Bytes("windows") :> Bytes("windows"))

arch_map ==
    (Bytes("x86_64") :> Bytes("amd64")) @@ (Bytes("amd64") :> Bytes("amd64"))
        @@ (Bytes("aarch64") :> Bytes("arm64")) @@ (Bytes("arm64") :> Bytes("arm64"))

\* _detect_platforms(ctx) for ctx.os = host
detect_platforms(host) ==
    LET os_name == ToLower(host.name)
        os_arch == ToLower(host.arch)
    IN  IF os_name \notin DOMAIN os_map
        THEN [failed |-> "Unsupported operating system", os |-> <<>>, arch |-> <<>>]
        ELSE IF os_arch \notin DOMAIN arch_map
        THEN [failed |-> "Unsupported architecture", os |-> <<>>, arch |-> <<>>]
        ELSE [failed |-> "", os |-> os_map[os_name], arch |-> arch_map[os_arch]]

NothingRequested == [failed |-> FALSE, requested |-> ""]

\* the body of the inner loop with the later tag overriding the earlier one
ConfigTag_LastWins(sel, version) ==
    IF version # "" THEN [failed |-> FALSE, requested |-> version] ELSE sel

\* the body of the inner loop for one config tag; requested "" stands for
\* None, failed for the evaluation ended by fail()
ConfigTag(sel, version) ==
    IF sel.failed THEN sel
    ELSE IF version # ""
    THEN IF sel.requested # "" /\ sel.requested # version
         THEN [failed |-> TRUE, requested |-> sel.requested]
         ELSE [failed |-> FALSE, requested |-> version]
    ELSE sel

\* for config_tag in mod.tags.config
RECURSIVE CollectTags(_, _, _)
CollectTags(tags, i, sel) ==
    IF i > Len(tags) THEN sel ELSE CollectTags(tags, i + 1, ConfigTag(sel, tags[i]))

\* for mod in ctx.modules
RECURSIVE CollectModules(_, _, _)
CollectModules(modules, m, sel) ==
    IF m > Len(modules) THEN sel
    ELSE CollectModules(modules, m + 1, CollectTags(modules[m], 1, sel))

URLPrefix == Bytes("https://github.com/golangci/golangci-lint/releases/download/")

ExtensionFails(msg, lookup) ==
    [failed |-> msg, lookup |-> lookup, version |-> "", sha256 |-> <<>>, url |-> <<>>,
     strip_prefix |-> <<>>]

\* _golangci_lint_extension_impl(ctx): what it fails with, or what it passes
\* to http_archive; lookup is the argument of get_golangci_version_info
golangci_lint_extension_impl(ctx) ==
    LET sel == CollectModules(ctx.modules, 1, NothingRequested)
        version_to_use == sel.requested
        info == get_golangci_version_info(ctx.generated, version_to_use)
        host == detect_platforms(ctx.host)
        tag == TagBytes[info.version]
    IN  IF sel.failed
        THEN ExtensionFails("Multiple modules requested different golangci-lint versions", "")
        ELSE IF info.failed THEN ExtensionFails("unknown version", version_to_use)
        ELSE IF host.failed # "" THEN ExtensionFails(host.failed, version_to_use)
        ELSE IF \/ host.os \notin DOMAIN info.checksums
                \/ host.arch \notin DOMAIN info.checksums[host.os]
        THEN ExtensionFails("Unsupported platform", version_to_use)
        ELSE [failed |-> "", lookup |-> version_to_use, version |-> info.version,
              sha256 |-> info.checksums[host.os][host.arch],
              url |-> URLPrefix \o tag \o Bytes("/golangci-lint-") \o version_no_v(tag)
                        \o <<45>> \o host.os \o <<45>> \o host.arch \o TarGz,
              strip_prefix |-> ToolPrefix \o version_no_v(tag) \o <<45>> \o host.os
                                 \o <<45>> \o host.arch]

MaxModules == 2

\* the config tags of one module: their version attributes, "" for a tag
\* that sets none
ModulePool == SeqsUpTo(ExtVersions \cup {""}, 2)

\* the hosts the extension is evaluated on
HostPool ==
    {[name |-> Bytes(h[1]), arch |-> Bytes(h[2])] :
        h \in {<<"Linux", "x86_64">>, <<"mac os x", "aarch64">>, <<"windows", "amd64">>,
               <<"freebsd", "amd64">>, <<"linux", "riscv64">>, <<"linux", "arm64">>}}

Contexts ==
    [modules : SeqsUpTo(ModulePool, MaxModules), host : HostPool, generated : GeneratedFiles]

(***************************************************************************)
(* The functions of parser.go and generator.go on their own: an input is   *)
(* drawn, the function is applied to it.  ParseChecksumFile is applied     *)
(* line by line, as its scan loop does.                                    *)
(***************************************************************************)
MaxLines == 2
MaxVersions == 2

\* the manifests ParseChecksumFile is given: every sequence of up to MaxLines
\* lines, the line just under the scanner's limit being tried on its own and
\* before a valid line
ParseInputs ==
    SeqsUpTo(LineIds \ {"maxline"}, MaxLines) \cup {<<"maxline">>, <<"maxline", "linux">>}

\* the checksum mappings and version lists PrepareTemplateData is given
ChecksumPool == {ParseOf[m].checksums : m \in {<<>>, <<"linux">>, <<"windows">>}}
VersionPool == {[Tag |-> t, Checksums |-> c] : t \in NonEmptyTags, c \in ChecksumPool}
VersionLists == SeqsUpTo(VersionPool, MaxVersions)

\* the keys of the maps SortedOSKeys and SortedArchKeys are given
MaxKeys == 3
KeyPool == {Bytes(k) : k \in {"linux", "lin", "darwin", "windows", "386", "amd64"}}
KeySets == {ks \in SUBSET KeyPool : Cardinality(ks) <= MaxKeys}

\* the orders in which ranging over a Go map may yield its keys
IterationOrders(ks) ==
    {o \in [1..Cardinality(ks) -> ks] : \A k \in ks : \E n \in DOMAIN o : o[n] = k}

\* the flat mappings organizePlatformsByOS is given: up to MaxKeys platforms,
\* two of them of the same OS, each with one of two hashes
PlatformPool ==
    {[OS |-> Bytes(p[1]), Arch |-> Bytes(p[2])] :
        p \in {<<"linux", "amd64">>, <<"linux", "arm64">>,
                <<"windows", "amd64">>, <<"darwin", "arm64">>}}
PlatformMaps ==
    UNION {[ps -> {HashC, HashD}] : ps \in {q \in SUBSET PlatformPool : Cardinality(q) <= MaxKeys}}

\* the tags loadFromCacheOrDownload is given on its own
ResolverTags == {"v2.6.1", "2.5.0", "vv2.6.0", "v"}

\* the cache directory before the call: each cache file absent or present
ResolverDirs ==
    [{CacheFileName(t) : t \in ResolverTags} -> {AbsentFile, FileOf(<<"windows">>)}]

\* the configurations resolveAbsolutePaths is given
WorkspaceRoots == {"/workspace", "/"}
ConfigPaths == {"cache", "output.bzl", "sub/../gen/./versions.bzl", "",
                "/absolute/cache", "/absolute//output.bzl/"}
Configs == [WorkspaceRoot : WorkspaceRoots, CacheDir : ConfigPaths, OutputFile : ConfigPaths]

\* the filenames ExtractPlatformFromFilename is given
FilenamePool ==
    {Bytes(f) : f \in {"golangci-lint-2.6.1-linux-amd64.tar.gz",
                       "golangci-lint-1.64.8-windows-386.zip",
                       "golangci-lint-2.6.1-source.tar.gz",
                       "golangci-lint-2.6.1-linux-amd64.deb",
                       "some-other-file.tar.gz",
                       "golangci-lint-linux-amd64.tar.gz",
                       "golangci-lint-2.6.1-linux-gnu-amd64.tar.gz",
                       "xgolangci-lint-2.6.1-linux-amd64.tar.gz",
                       "golangci-lint-2.6.1-linux-amd64.zip.sig",
                       "golangci-lint-..-linux-amd64.zip"}}

PipelineIdle ==
    /\ pc = "idle"
    /\ err = NoError
    /\ failed = {}
    /\ cache = [f \in CacheFiles |-> AbsentFile]
    /\ outFile = AbsentFile
    /\ tmpFile = AbsentFile
    /\ fOpen = FALSE
    /\ outBefore = AbsentFile
    /\ tmpBefore = AbsentFile
    /\ cacheBefore = cache
    /\ releases = <<>>
    /\ ri = 1
    /\ versions = <<>>
    /\ steps = <<>>
    /\ templateData = NoTemplateData

pipelineVars == <<pc, err, failed, cache, outFile, tmpFile, fOpen, outBefore, tmpBefore, cacheBefore,
                  releases, ri, versions, steps, templateData, otherRunVars>>

UnitInit ==
    /\ PipelineIdle
    /\ SingleRun
    /\ \/ \E m \in ParseInputs :
            LET sc == ScanLines(ManifestBytes(m)) IN
            unit = [op |-> "ParseChecksumFile", input |-> m, lines |-> sc.lines,
                    scanErr |-> sc.err, pos |-> 1, prev |-> EmptyMap,
                    output |-> EmptyMap, err |-> FALSE, done |-> FALSE]
       \/ \E vs \in VersionLists :
            unit = [op |-> "PrepareTemplateData", input |-> vs,
                    output |-> NoTemplateData, done |-> FALSE]
       \/ \E ks \in KeySets :
            \E o1 \in IterationOrders(ks), o2 \in IterationOrders(ks) :
                unit = [op |-> "SortedKeys", input |-> [k \in ks |-> HashC],
                        order1 |-> o1, order2 |-> o2,
                        output1 |-> <<>>, output2 |-> <<>>, done |-> FALSE]
       \/ \E t \in ResolverTags, dir \in ResolverDirs :
            unit = [op |-> "loadFromCacheOrDownload", input |-> t, dir |-> dir,
                    url |-> "", output |-> [data |-> <<>>, err |-> NoError,
                                            cache |-> dir, called |-> FALSE],
                    done |-> FALSE]
       \/ \E config \in Configs :
            unit = [op |-> "resolveAbsolutePaths", input |-> config,
                    output |-> [absCacheDir |-> "", absOutputFile |-> ""],
                    done |-> FALSE]
       \/ \E f \in FilenamePool :
            unit = [op |-> "ExtractPlatformFromFilename", input |-> f,
                    output |-> [OS |-> <<>>, Arch |-> <<>>], err |-> FALSE,
                    done |-> FALSE]
       \/ \E ctx \in Contexts :
            unit = [op |-> "golangci_lint_extension", input |-> ctx,
                    output |-> ExtensionFails("", ""), done |-> FALSE]
       \/ \E m \in PlatformMaps :
            \E o \in IterationOrders(DOMAIN m) :
                unit = [op |-> "organizePlatformsByOS", input |-> m, order |-> o,
                        output |-> EmptyMap, done |-> FALSE]

\* one pass of the scan loop of ParseChecksumFile
ParseStep ==
    /\ unit.op = "ParseChecksumFile"
    /\ ~unit.done
    /\ unit.pos <= Len(unit.lines)
    /\ unit' = [unit EXCEPT !.prev = unit.output,
                            !.output = ParseLine(unit.output, unit.lines[unit.pos]),
                            !.pos = unit.pos + 1]
    /\ UNCHANGED pipelineVars

\* scanner.Scan() returned false: ParseChecksumFile returns
ParseReturn ==
    /\ unit.op = "ParseChecksumFile"
    /\ ~unit.done
    /\ unit.pos > Len(unit.lines)
    /\ unit' = [unit EXCEPT !.done = TRUE,
                            !.err = unit.scanErr,
                            !.prev = unit.output,
                            !.output = IF unit.scanErr THEN EmptyMap ELSE unit.output]
    /\ UNCHANGED pipelineVars

ApplyPrepareTemplateData ==
    /\ unit.op = "PrepareTemplateData"
    /\ ~unit.done
    /\ unit' = [unit EXCEPT !.done = TRUE,
                            !.output = PrepareTemplateData(unit.input)]
    /\ UNCHANGED pipelineVars

ApplyExtractPlatformFromFilename ==
    /\ unit.op = "ExtractPlatformFromFilename"
    /\ ~unit.done
    /\ LET ex == ExtractPlatformFromFilename(unit.input) IN
       unit' = [unit EXCEPT !.done = TRUE, !.err = ex.err, !.output = ex.platform]
    /\ UNCHANGED pipelineVars

\* SortedOSKeys / SortedArchKeys called twice on the same map, the map
\* yielding its keys in order1 the first time and in order2 the second
ApplySortedKeys ==
    /\ unit.op = "SortedKeys"
    /\ ~unit.done
    /\ unit' = [unit EXCEPT !.done = TRUE,
                            !.output1 = SortedKeysIterated(unit.order1),
                            !.output2 = SortedKeysIterated(unit.order2)]
    /\ UNCHANGED pipelineVars

\* loadFromCacheOrDownload(cacheFile, tag) with cacheFile as processReleases
\* builds it; url is the URL DownloadAsset was asked for, if it was asked
ApplyLoadFromCacheOrDownload ==
    /\ unit.op = "loadFromCacheOrDownload"
    /\ ~unit.done
    /\ \E readOK \in BOOLEAN, resp \in DownloadResponses, write \in WriteOutcomes :
        LET r == loadFromCacheOrDownload(unit.dir, unit.input, readOK, resp, write) IN
        unit' = [unit EXCEPT !.done = TRUE,
                             !.output = r,
                             !.url = IF r.called THEN AssetURL(unit.input) ELSE ""]
    /\ UNCHANGED pipelineVars

\* organizePlatformsByOS on a map that yields its platforms in unit.order
ApplyOrganizePlatformsByOS ==
    /\ unit.op = "organizePlatformsByOS"
    /\ ~unit.done
    /\ unit' = [unit EXCEPT !.done = TRUE,
                            !.output = organizePlatformsIterated(unit.input, unit.order)]
    /\ UNCHANGED pipelineVars

\* the module extension evaluated on the modules, host and generated file
ApplyExtension ==
    /\ unit.op = "golangci_lint_extension"
    /\ ~unit.done
    /\ unit' = [unit EXCEPT !.done = TRUE,
                            !.output = golangci_lint_extension_impl(unit.input)]
    /\ UNCHANGED pipelineVars

ApplyResolveAbsolutePaths ==
    /\ unit.op = "resolveAbsolutePaths"
    /\ ~unit.done
    /\ unit' = [unit EXCEPT !.done = TRUE, !.output = resolveAbsolutePaths(unit.input)]
    /\ UNCHANGED pipelineVars

UnitNext ==
    \/ ParseStep
    \/ ParseReturn
    \/ ApplyPrepareTemplateData
    \/ ApplyExtractPlatformFromFilename
    \/ ApplySortedKeys
    \/ ApplyLoadFromCacheOrDownload
    \/ ApplyResolveAbsolutePaths
    \/ ApplyOrganizePlatformsByOS
    \/ ApplyExtension

UnitSpec == UnitInit /\ [][UnitNext]_vars

(***************************************************************************)
(* processReleases called twice over one release list and one cache        *)
(* directory: the second call starts from the cache the first one left.    *)
(***************************************************************************)
RerunInit ==
    /\ pc = "process"
    /\ err = NoError
    /\ failed = {}
    /\ cache \in [CacheFiles -> {AbsentFile} \cup {FileOf(m) : m \in CachePool}]
    /\ outFile = AbsentFile
    /\ tmpFile = AbsentFile
    /\ fOpen = FALSE
    /\ outBefore = AbsentFile
    /\ tmpBefore = AbsentFile
    /\ cacheBefore = cache
    /\ releases \in ReleaseLists
    /\ ri = 1
    /\ versions = <<>>
    /\ steps = <<>>
    /\ templateData = NoTemplateData
    /\ unit = NoUnit
    /\ SingleRun

\* the first call has returned its versions, every download and every cache
\* write it made having succeeded; the second call starts with an empty list
\* at the first release
Rerun ==
    /\ pc = "process"
    /\ ri > Len(releases)
    /\ ~firstRun.done
    /\ \A k \in 1..Len(steps) :
            steps[k].called => (~steps[k].resp.err /\ steps[k].write = "ok")
    /\ firstRun' = [done |-> TRUE, versions |-> versions, steps |-> steps, cache |-> cache]
    /\ ri' = 1
    /\ versions' = <<>>
    /\ steps' = <<>>
    /\ UNCHANGED <<pc, err, failed, cache, outFile, tmpFile, fOpen, outBefore, tmpBefore,
                   cacheBefore, releases, templateData, unit, inv, paths, inodes, overlap>>

RerunNext ==
    \/ ProcessRelease
    \/ Rerun

RerunSpec == RerunInit /\ [][RerunNext]_vars

(***************************************************************************)
(* Two invocations of GenerateStarlarkFile on one output path, each at its *)
(* own pace.  The directory maps a path to an inode (0: no file); an open  *)
(* file refers to its inode and has its own offset, counted in the pieces  *)
(* tmpl.Execute writes.                                                    *)
(***************************************************************************)
Invocations == {1, 2}

OutputPath == "versions.bzl"

\* a temporary path of its own for every invocation
TempPath_PerInvocation(p) == IF p = 1 THEN "versions.bzl.tmp.1" ELSE "versions.bzl.tmp.2"

\* tempFile := outputPath + ".tmp"
TempPath(p) == OutputPath \o ".tmp"

RacePaths == {OutputPath, OutputPath \o ".tmp", "versions.bzl.tmp.1", "versions.bzl.tmp.2"}

\* the texts the invocations render
RaceTexts ==
    {Render(PrepareTemplateData(vs)) :
        vs \in {<<[Tag |-> "v2.6.1", Checksums |-> ParseOf[<<"linux">>].checksums]>>,
                <<[Tag |-> "v2.6.0", Checksums |-> ParseOf[<<"windows">>].checksums],
                  [Tag |-> "v2.6.1", Checksums |-> ParseOf[<<"linux">>].checksums]>>}}

\* bytes never written, below the offset of a write past the end of a file
Hole == Chunk("hole", "", <<>>)

\* a write of piece c at offset off into a file holding content
WriteAt(content, off, c) ==
    [k \in 1..(IF Len(content) > off + 1 THEN Len(content) ELSE off + 1) |->
        IF k = off + 1 THEN c
        ELSE IF k <= Len(content) THEN content[k]
        ELSE Hole]

\* _ = os.Remove(path), best effort
RemovePath(dir, path, ok) == IF ok THEN [dir EXCEPT ![path] = 0] ELSE dir

singleRunVars == <<pc, err, failed, cache, outFile, tmpFile, fOpen, outBefore, tmpBefore,
                   cacheBefore, releases, ri, versions, steps, templateData, unit, firstRun>>

RaceInit ==
    /\ PipelineIdle
    /\ unit = NoUnit
    /\ firstRun = NoFirstRun
    /\ \E t1 \in RaceTexts, t2 \in RaceTexts :
          inv = [p \in Invocations |->
                    [pc |-> "create", text |-> IF p = 1 THEN t1 ELSE t2,
                     ino |-> 0, off |-> 0, err |-> NoError]]
    /\ \/ /\ paths = [f \in RacePaths |-> 0]
          /\ inodes = <<>>
       \/ /\ paths = [f \in RacePaths |-> IF f = OutputPath THEN 1 ELSE 0]
          /\ inodes = <<OldArtifact>>
    /\ overlap = FALSE

\* invocation p holds its temporary file open for writing
Holding(p) == inv[p].pc \in {"execute", "close"}

\* invocation p has created its temporary file and not yet renamed or left it
InWindow(p) == inv[p].pc \in {"execute", "close", "rename"}

\* invocation p returns e
RaceReturn(p, e) == inv' = [inv EXCEPT ![p].pc = "done", ![p].err = e]

\* template ParseFS, then os.Create(tempFile): the file at the path is
\* truncated, or a new file is made when there is none
RaceCreate(p) ==
    /\ inv[p].pc = "create"
    /\ \E outcome \in {"ok", "parseFails", "createFails"} :
        CASE outcome = "ok" ->
                LET path == TempPath(p)
                    ino == IF paths[path] = 0 THEN Len(inodes) + 1 ELSE paths[path]
                IN  /\ paths' = [paths EXCEPT ![path] = ino]
                    /\ inodes' = IF paths[path] = 0 THEN Append(inodes, <<>>)
                                 ELSE [inodes EXCEPT ![ino] = <<>>]
                    /\ inv' = [inv EXCEPT ![p].pc = "execute", ![p].ino = ino,
                                          ![p].off = 0]
                    /\ overlap' = (overlap \/ \E q \in Invocations \ {p} : InWindow(q))
          [] outcome = "parseFails" ->
                /\ RaceReturn(p, "failed to parse template")
                /\ UNCHANGED <<paths, inodes, overlap>>
          [] outcome = "createFails" ->
                /\ RaceReturn(p, "failed to create temp file")
                /\ UNCHANGED <<paths, inodes, overlap>>
    /\ UNCHANGED singleRunVars

\* tmpl.Execute(f, data): the next piece goes to the open file at its offset,
\* or the execution fails and the temporary path is removed
RaceExecute(p) ==
    /\ inv[p].pc = "execute"
    /\ \/ /\ inodes' = [inodes EXCEPT ![inv[p].ino] =
                            WriteAt(inodes[inv[p].ino], inv[p].off,
                                    inv[p].text[inv[p].off + 1])]
          /\ inv' = [inv EXCEPT ![p].off = inv[p].off + 1,
                                ![p].pc = IF inv[p].off + 1 = Len(inv[p].text)
                                          THEN "close" ELSE "execute"]
          /\ UNCHANGED paths
       \/ /\ \E removed \in BOOLEAN : paths' = RemovePath(paths, TempPath(p), removed)
          /\ RaceReturn(p, "failed to execute template")
          /\ UNCHANGED inodes
    /\ UNCHANGED <<overlap, singleRunVars>>

\* f.Close()
RaceClose(p) ==
    /\ inv[p].pc = "close"
    /\ \/ /\ inv' = [inv EXCEPT ![p].pc = "rename"]
          /\ UNCHANGED paths
       \/ /\ \E removed \in BOOLEAN : paths' = RemovePath(paths, TempPath(p), removed)
          /\ RaceReturn(p, "failed to close temp file")
    /\ UNCHANGED <<inodes, overlap, singleRunVars>>

\* os.Rename(tempFile, outputPath): fails when there is no file at tempFile
RaceRename(p) ==
    /\ inv[p].pc = "rename"
    /\ \/ /\ paths[TempPath(p)] # 0
          /\ paths' = [paths EXCEPT ![OutputPath] = paths[TempPath(p)],
                                    ![TempPath(p)] = 0]
          /\ RaceReturn(p, NoError)
       \/ /\ \E removed \in BOOLEAN : paths' = RemovePath(paths, TempPath(p), removed)
          /\ RaceReturn(p, "failed to rename temp file")
    /\ UNCHANGED <<inodes, overlap, singleRunVars>>

RaceNext ==
    \/ \E p \in Invocations : RaceCreate(p)
    \/ \E p \in Invocations : RaceExecute(p)
    \/ \E p \in Invocations : RaceClose(p)
    \/ \E p \in Invocations : RaceRename(p)

RaceSpec == RaceInit /\ [][RaceNext]_vars

(***************************************************************************)
(* Properties                                                              *)
(***************************************************************************)

\* processReleases has gone through the whole release list
Processed == pc \in {"generate", "execute", "close", "rename", "done"} /\ ri > Len(releases)

\* the release of step st was resolved and parsed without error
Survived(st) == st.tag # "" /\ st.loadErr = NoError /\ ~st.parseErr

\* C1: cache hit.  Whenever a release with a non-empty tag is processed while
\* its cache file exists and can be read, loadFromCacheOrDownload returns
\* exactly the bytes of that file, without error, and DownloadAsset is not
\* invoked for that release, whatever the collaborator would have answered.
C1_CacheHit ==
    \A k \in 1..Len(steps) :
        (steps[k].tag # "" /\ steps[k].hit /\ steps[k].readOK)
            => /\ steps[k].loadErr = NoError
               /\ steps[k].data = steps[k].cached
               /\ ~steps[k].called
               /\ steps[k].url = ""

\* a release was served from a non-empty cache file that was there before
\* the run
C1_Witness ==
    \E k \in 1..Len(steps) :
        /\ steps[k].hit /\ steps[k].readOK
        /\ steps[k].cached = <<"windows">>
        /\ steps[k].data = <<"windows">>
        /\ cacheBefore[CacheFileName(steps[k].tag)].exists

\* GenerateStarlarkFile returned an error after it had created <output>.tmp
FailedAfterCreate == failed \cap {"execute", "close", "rename"} # {}

\* C2 as stated: on success the output path holds the complete artifact and
\* no <output>.tmp remains; on an error after the temporary file was created
\* the temporary file has been removed and the output file is as it was.
C2_AtomicOutcome_Original ==
    pc = "done" =>
        /\ (err = NoError =>
                /\ outFile = FileOf(Render(templateData))
                /\ ~tmpFile.exists)
        /\ (FailedAfterCreate =>
                /\ ~tmpFile.exists
                /\ outFile = outBefore)

\* C2, amended: on success the output path holds the complete artifact and
\* no <output>.tmp remains; on an error after the temporary file was created
\* the output file is as it was, and the temporary file is gone exactly when
\* the best-effort os.Remove succeeded (its failure is ignored and leaves the
\* temporary file behind).
C2_AtomicOutcome ==
    pc = "done" =>
        /\ (err = NoError =>
                /\ outFile = FileOf(Render(templateData))
                /\ ~tmpFile.exists)
        /\ (FailedAfterCreate =>
                /\ (tmpFile.exists <=> "remove" \in failed)
                /\ outFile = outBefore)

\* a rename failed over an existing output file and the cleanup worked
C2_Witness ==
    /\ pc = "done"
    /\ "rename" \in failed
    /\ "remove" \notin failed
    /\ ~tmpFile.exists
    /\ outBefore.exists
    /\ outFile = outBefore

\* C3: atomic replace.  The output path always holds what it held before the
\* run (possibly nothing) or the complete new artifact; it changes only by
\* the rename, which happens only once the whole text is in <output>.tmp and
\* that file has been closed without error; nothing else writes to it.
C3_AtomicReplace ==
    /\ [](outFile = outBefore \/ outFile = FileOf(Render(templateData)))
    /\ [][outFile' # outFile =>
            /\ pc = "rename"
            /\ ~fOpen
            /\ "close" \notin failed
            /\ tmpFile = FileOf(Render(templateData))
            /\ outFile' = tmpFile]_vars

\* the rename replaced an older output file
C3_Witness ==
    /\ pc = "done"
    /\ err = NoError
    /\ outBefore = FileOf(OldArtifact)
    /\ outFile = FileOf(Render(templateData))
    /\ outFile # outBefore

\* Run got as far as calling processReleases, and processReleases returned
ProcessReleasesReturned ==
    /\ ri > Len(releases)
    /\ \/ pc = "process"
       \/ /\ pc \in {"generate", "execute", "close", "rename", "done"}
          /\ failed \cap {"mkdirCache", "mkdirOutput", "getReleases"} = {}

DownloadFailed(st) == st.called /\ st.resp.err

FatalStages ==
    {"mkdirCache", "mkdirOutput", "getReleases",
     "parseTemplate", "createTemp", "execute", "close", "rename"}

\* C5: once Run has returned, it has returned an error if and only if the
\* cache directory or the output directory could not be created,
\* GetLatestReleases failed, processReleases yielded no version, or
\* GenerateStarlarkFile failed.  Releases that were skipped (empty tag,
\* download, cache read or parse failure) and cache-write failures do not
\* make it return an error as long as one release survives.
C5_FatalTaxonomy ==
    pc = "done" =>
        /\ err # NoError <=>
              \/ "mkdirCache" \in failed
              \/ "mkdirOutput" \in failed
              \/ "getReleases" \in failed
              \/ (ProcessReleasesReturned /\ Len(versions) = 0)
              \/ failed \cap {"parseTemplate", "createTemp", "execute", "close", "rename"} # {}
        /\ (failed \cap FatalStages = {} /\ Len(versions) >= 1) => err = NoError

\* Run succeeded although a release was skipped and a cache write failed
C5_Witness ==
    /\ pc = "done"
    /\ err = NoError
    /\ \E k \in 1..Len(steps) : steps[k].tag # "" /\ ~Survived(steps[k])
    /\ \E k \in 1..Len(steps) :
          steps[k].called /\ ~steps[k].resp.err /\ steps[k].write # "ok"

VersionTags == [k \in 1..Len(versions) |-> versions[k].Tag]

\* C6: order preservation.  The list processReleases builds is the release
\* list restricted to the releases with a non-empty tag whose manifest was
\* resolved and parsed without error: same order, same multiplicity, each
\* with the checksums parsed from its manifest.
C6_OrderPreserved ==
    LET sel == SelectSeq(steps, Survived) IN
    /\ \A k \in 1..Len(steps) : steps[k].tag = releases[k]
    /\ VersionTags = [k \in 1..Len(sel) |-> sel[k].tag]
    /\ \A k \in 1..Len(sel) : versions[k].Checksums = ParseOf[sel[k].data].checksums

\* two releases with different tags both survived
C6_Witness ==
    /\ ProcessReleasesReturned
    /\ Len(versions) = 2
    /\ versions[1].Tag = "v2.6.0"
    /\ versions[2].Tag = "v2.6.1"
    /\ releases = <<"v2.6.0", "v2.6.1">>

\* C7: PrepareTemplateData sets DefaultVersion to the tag of the first
\* version of a non-empty list, whatever the other versions and the
\* checksums are; for the empty list DefaultVersion is the empty string and
\* Versions is empty.
C7_DefaultVersion ==
    (unit.op = "PrepareTemplateData" /\ unit.done) =>
        IF unit.input = <<>>
        THEN unit.output.DefaultVersion = "" /\ unit.output.Versions = <<>>
        ELSE unit.output.DefaultVersion = unit.input[1].Tag

\* a list of two versions with different tags, the first without checksums
C7_Witness ==
    /\ unit.op = "PrepareTemplateData"
    /\ unit.done
    /\ Len(unit.input) = 2
    /\ unit.input[1].Tag = "v2.6.0"
    /\ unit.input[2].Tag = "v2.6.1"
    /\ unit.input[1].Checksums = EmptyMap
    /\ unit.output.DefaultVersion = "v2.6.0"

\* C8: every entry of TemplateData.Versions built by Run stands for a release
\* whose manifest was resolved and parsed and yielded at least one checksum;
\* no entry has an empty checksum mapping.
C8_NoEmptyVersions ==
    \A j \in 1..Len(templateData.Versions) :
        /\ DOMAIN templateData.Versions[j].ChecksumsByOS # {}
        /\ \E k \in 1..Len(steps) :
              Survived(steps[k]) /\ steps[k].tag = templateData.Versions[j].Tag

HexBytes == {Ord(SubSeq("0123456789abcdefABCDEF", k, k)) : k \in 1..22}

Hex64(h) == Len(h) = 64 /\ \A k \in 1..Len(h) : h[k] \in HexBytes

\* C10: hash validity.  Every value in the mapping ParseChecksumFile builds,
\* after every line, is 64 characters long, each in [0-9a-fA-F]; and a line
\* whose first token is not of this form leaves the mapping as it was.
C10_HashValidity ==
    (unit.op = "ParseChecksumFile") =>
        /\ \A p \in DOMAIN unit.output : Hex64(unit.output[p])
        /\ (unit.pos > 1 /\ ~unit.done) =>
              LET parts == Fields(unit.lines[unit.pos - 1]) IN
              (parts = <<>> \/ ~Hex64(parts[1])) => unit.output = unit.prev

\* a valid line was recorded, then a line with a 65-character hash was not
C10_Witness ==
    /\ unit.op = "ParseChecksumFile"
    /\ unit.input = <<"linux", "long">>
    /\ unit.pos = 3
    /\ DOMAIN unit.output = {[OS |-> Bytes("linux"), Arch |-> Bytes("amd64")]}
    /\ unit.output[[OS |-> Bytes("linux"), Arch |-> Bytes("amd64")]] = HashC

\* the manifest lines of LineText that consist of a valid hash, white space
\* and a filename golangci-lint-<version>-<os>-<arch>.<ext>, with the hash,
\* the os and the arch each was written with
ValidLine ==
    [linux     |-> [hash |-> HashC, OS |-> "linux", Arch |-> "amd64"],
     windows   |-> [hash |-> HashMixed, OS |-> "windows", Arch |-> "386"],
     linuxzip  |-> [hash |-> HashD, OS |-> "linux", Arch |-> "amd64"],
     longvalid |-> [hash |-> HashC, OS |-> "linux", Arch |-> "amd64"]]

ValidLineIds == DOMAIN ValidLine

PlatformOf(id) == [OS |-> Bytes(ValidLine[id].OS), Arch |-> Bytes(ValidLine[id].Arch)]

\* ParseChecksumFile returned exactly the one entry line id was written with
OneEntryFor(id) ==
    /\ ~unit.err
    /\ DOMAIN unit.output = {PlatformOf(id)}
    /\ unit.output[PlatformOf(id)] = ValidLine[id].hash

\* C11 as stated: for every manifest of a single valid line, of whatever
\* length, ParseChecksumFile returns exactly one entry, keyed by
\* Platform{os, arch}, holding the hash as given.
C11_ValidLine_Original ==
    (/\ unit.op = "ParseChecksumFile"
     /\ unit.done
     /\ Len(unit.input) = 1
     /\ unit.input[1] \in ValidLineIds)
    => OneEntryFor(unit.input[1])

\* C11 (amended): for every manifest of a single valid line shorter than
\* bufio.MaxScanTokenSize (65536 bytes), ParseChecksumFile returns exactly
\* one entry, keyed by Platform{os, arch}, holding the hash token as given,
\* its letter case unchanged; for a valid line of 65536 bytes or more it
\* returns an error and no mapping.
C11_ValidLine ==
    (/\ unit.op = "ParseChecksumFile"
     /\ unit.done
     /\ Len(unit.input) = 1
     /\ unit.input[1] \in ValidLineIds)
    => IF Len(LineText[unit.input[1]]) < MaxScanTokenSize
       THEN OneEntryFor(unit.input[1])
       ELSE unit.err /\ unit.output = EmptyMap

\* the line with the mixed-case hash was parsed into its one entry
C11_Witness ==
    /\ unit.op = "ParseChecksumFile"
    /\ unit.done
    /\ unit.input = <<"windows">>
    /\ ~unit.err
    /\ unit.output[[OS |-> Bytes("windows"), Arch |-> Bytes("386")]] = HashMixed
    /\ HashMixed # ToLower(HashMixed)

\* the text of line k of the manifest under ParseChecksumFile
InputLine(k) == LineText[unit.input[k]]

\* the white-space separated tokens of each line of LineText
FieldsOfLine == [id \in LineIds |-> Fields(LineText[id])]

LastField(id) == FieldsOfLine[id][Len(FieldsOfLine[id])]

\* the three filters of the claim: at least two white-space separated
\* tokens, a valid hash first, a last token ending in .tar.gz or .zip
PassesFilters ==
    [id \in LineIds |->
        /\ Len(FieldsOfLine[id]) >= 2
        /\ Hex64(FieldsOfLine[id][1])
        /\ \/ HasSuffix(LastField(id), Bytes(".tar.gz"))
           \/ HasSuffix(LastField(id), Bytes(".zip"))]

\* what platform extraction makes of the filename of each line that passes
ExtractionOf ==
    [id \in {x \in LineIds : PassesFilters[x]} |->
        ExtractPlatformFromFilename(LastField(id))]

\* the lines that pass the filters, and those of them that fail extraction
Passing == {k \in 1..Len(unit.input) : PassesFilters[unit.input[k]]}
FailingExtraction == {k \in Passing : ExtractionOf[unit.input[k]].err}

\* lines whose platform is named again by a later line
Overridden ==
    {k \in Passing \ FailingExtraction :
        \E j \in Passing \ FailingExtraction :
            /\ j > k
            /\ ExtractionOf[unit.input[j]].platform = ExtractionOf[unit.input[k]].platform}

AllLinesShort == \A k \in 1..Len(unit.input) : Len(InputLine(k)) < MaxScanTokenSize

\* C12 as stated: for all manifests the number of entries returned equals
\* the number of lines passing the three filters minus the number of those
\* whose filename fails platform extraction.
C12_EntryCount_Original ==
    (unit.op = "ParseChecksumFile" /\ unit.done)
    => Cardinality(DOMAIN unit.output)
         = Cardinality(Passing) - Cardinality(FailingExtraction)

\* C12 (amended): for all manifests whose lines are all shorter than 65536
\* bytes, the number of entries returned equals the number of lines passing
\* the three filters, minus those whose filename fails platform extraction,
\* minus those whose platform is named again by a later such line (the later
\* line replaces the entry); a manifest with a longer line yields an error
\* and no entries.
C12_EntryCount ==
    (unit.op = "ParseChecksumFile" /\ unit.done)
    => IF AllLinesShort
       THEN /\ ~unit.err
            /\ Cardinality(DOMAIN unit.output)
                 = Cardinality(Passing) - Cardinality(FailingExtraction)
                     - Cardinality(Overridden)
       ELSE unit.err /\ unit.output = EmptyMap

\* two passing lines for linux/amd64 gave one entry, with the later hash
C12_Witness ==
    /\ unit.op = "ParseChecksumFile"
    /\ unit.done
    /\ unit.input = <<"linux", "linuxzip">>
    /\ Cardinality(Passing) = 2
    /\ FailingExtraction = {}
    /\ Overridden = {1}
    /\ Cardinality(DOMAIN unit.output) = 1
    /\ unit.output[[OS |-> Bytes("linux"), Arch |-> Bytes("amd64")]] = HashD

\* C13 as stated: ParseChecksumFile never returns an error for content in
\* memory, whatever the length of its lines.
C13_NeverErrors_Original ==
    (unit.op = "ParseChecksumFile" /\ unit.done) => ~unit.err

\* C13 (amended): ParseChecksumFile returns an error exactly when the
\* content has a line of 65536 bytes or more (bufio.ErrTooLong), and then
\* returns no mapping, whatever the earlier lines held; for every other
\* content (empty, all lines skipped, malformed lines) it returns a mapping,
\* possibly empty, and a nil error, and no error is raised before the scan
\* has ended.
C13_ErrorOnlyTooLong ==
    (unit.op = "ParseChecksumFile")
    => /\ ~unit.done => ~unit.err
       /\ unit.done =>
            /\ unit.err <=> ~AllLinesShort
            /\ unit.err => unit.output = EmptyMap
            /\ (~unit.err /\ Passing = {}) => unit.output = EmptyMap

\* a valid line followed by a line of 65536 bytes: the scan loop recorded the
\* first line, then ParseChecksumFile returned the error and no mapping
C13_Witness ==
    /\ unit.op = "ParseChecksumFile"
    /\ unit.done
    /\ unit.input = <<"linux", "toolong">>
    /\ DOMAIN unit.prev # {}
    /\ unit.err
    /\ unit.output = EmptyMap

\* one or more numeric groups separated by single dots
IsDottedVersion(v) ==
    /\ Len(v) >= 1
    /\ \A k \in 1..Len(v) : v[k] \in (48..57) \cup {46}
    /\ v[1] # 46
    /\ v[Len(v)] # 46
    /\ \A k \in 1..(Len(v) - 1) : ~(v[k] = 46 /\ v[k + 1] = 46)

IsWordToken(w) == Len(w) >= 1 /\ \A k \in 1..Len(w) : w[k] \in WordClass

\* the ways to read the whole of f as
\* golangci-lint-<version>-<os>-<arch>.<tar.gz|zip>: the version ends before
\* the dash at i, the os before the dash at j, the arch before the dot at k
ShapeReadings(f) ==
    LET dashes == {i \in 1..Len(f) : f[i] = 45}
        dots == {k \in 1..Len(f) : f[k] = 46}
        cuts == {t \in dashes \X dashes \X dots :
                    /\ t[1] < t[2]
                    /\ t[2] < t[3]
                    /\ HasAt(f, 1, ToolPrefix)
                    /\ IsDottedVersion(SubSeq(f, Len(ToolPrefix) + 1, t[1] - 1))
                    /\ IsWordToken(SubSeq(f, t[1] + 1, t[2] - 1))
                    /\ IsWordToken(SubSeq(f, t[2] + 1, t[3] - 1))
                    /\ SubSeq(f, t[3], Len(f)) \in {TarGz, Zip}}
    IN  {[OS |-> SubSeq(f, t[1] + 1, t[2] - 1), Arch |-> SubSeq(f, t[2] + 1, t[3] - 1)] :
            t \in cuts}

\* C14: ExtractPlatformFromFilename succeeds only for a filename that as a
\* whole reads golangci-lint-<version>-<os>-<arch>.<tar.gz|zip>, and then
\* returns that os and arch; a filename with text before or after the
\* shape, a malformed version or another extension returns an error.
C14_AnchoredShape ==
    (unit.op = "ExtractPlatformFromFilename" /\ unit.done)
    => /\ ~unit.err => unit.output \in ShapeReadings(unit.input)
       /\ ShapeReadings(unit.input) = {} => unit.err

\* C15: deterministic key ordering.  Whatever order the map yields its keys
\* in, SortedOSKeys and SortedArchKeys return each key of the map exactly
\* once, in ascending lexicographic order; two calls on the same map with
\* different iteration orders return the same sequence, which is the one
\* the rendering of a version ranges over.
C15_SortedKeys ==
    (unit.op = "SortedKeys" /\ unit.done)
    => /\ Len(unit.output1) = Cardinality(DOMAIN unit.input)
       /\ {unit.output1[k] : k \in 1..Len(unit.output1)} = DOMAIN unit.input
       /\ \A k \in 1..(Len(unit.output1) - 1) : LexLess(unit.output1[k], unit.output1[k + 1])
       /\ unit.output2 = unit.output1
       /\ unit.output1 = SortedOSKeys(unit.input)
       /\ unit.output1 = SortedArchKeys(unit.input)

\* a map with keys lin, linux and 386, iterated in two different orders
C15_Witness ==
    /\ unit.op = "SortedKeys"
    /\ unit.done
    /\ unit.order1 = <<Bytes("linux"), Bytes("lin"), Bytes("386")>>
    /\ unit.order2 = <<Bytes("lin"), Bytes("386"), Bytes("linux")>>
    /\ unit.output1 = <<Bytes("386"), Bytes("lin"), Bytes("linux")>>
    /\ unit.output2 = unit.output1

\* the cache file was absent and DownloadAsset succeeded
MissDownloaded(st) == st.tag # "" /\ ~st.hit /\ st.called /\ ~st.resp.err

\* C16: cache population on miss.  When the cache file of a tag does not
\* exist and DownloadAsset succeeds, loadFromCacheOrDownload returns exactly
\* the downloaded bytes and no error, whether or not os.WriteFile succeeds;
\* if the write succeeds, <cache-dir>/<tag>.txt holds exactly those bytes
\* from then on.
C16_CachePopulation ==
    \A k \in 1..Len(steps) :
        MissDownloaded(steps[k])
        => /\ steps[k].loadErr = NoError
           /\ steps[k].data = steps[k].resp.data
           /\ steps[k].write = "ok"
                => cache[CacheFileName(steps[k].tag)] = FileOf(steps[k].resp.data)
           /\ (steps[k].write = "fail" /\ k = Len(steps))
                => ~cache[CacheFileName(steps[k].tag)].exists

\* the first download could not be saved and its release was appended all
\* the same; the second was saved and its cache file holds the download
C16_Witness ==
    /\ Len(steps) = 2
    /\ MissDownloaded(steps[1])
    /\ steps[1].write = "fail"
    /\ steps[1].data = <<"linux">>
    /\ steps[1].appended
    /\ ~cache[CacheFileName(steps[1].tag)].exists
    /\ MissDownloaded(steps[2])
    /\ steps[2].write = "ok"
    /\ ~cacheBefore[CacheFileName(steps[2].tag)].exists
    /\ cache[CacheFileName(steps[2].tag)] = FileOf(<<"windows">>)

\* the step just taken was an iteration of processReleases in which
\* DownloadAsset was called and failed
DownloadJustFailed ==
    /\ Len(steps') = Len(steps) + 1
    /\ steps'[Len(steps')].called
    /\ steps'[Len(steps')].resp.err

\* C17: a download failure is contained in its release.  When DownloadAsset
\* fails on a cache miss, loadFromCacheOrDownload returns an error, the
\* cache directory is left as it was (no file created or modified), nothing
\* is appended to the versions, and the loop goes on to the next release:
\* Run does not leave processReleases before every release has been handled.
C17_DownloadFailureContained ==
    /\ [][DownloadJustFailed
            => /\ steps'[Len(steps')].loadErr = "failed to download checksum file"
               /\ ~steps'[Len(steps')].hit
               /\ cache' = cache
               /\ versions' = versions
               /\ ~steps'[Len(steps')].appended
               /\ pc' = "process"
               /\ ri' = ri + 1
               /\ err' = NoError]_vars
    /\ [](ProcessReleasesReturned => Len(steps) = Len(releases))
    /\ []((pc = "process" /\ ri <= Len(releases)) => ENABLED ProcessRelease)

\* the first release's download failed, the second release was processed
\* after it and appended
C17_Witness ==
    /\ Len(releases) = 2
    /\ Len(steps) = 2
    /\ DownloadFailed(steps[1])
    /\ ~cache[CacheFileName(steps[1].tag)].exists
    /\ steps[2].tag # steps[1].tag
    /\ steps[2].appended
    /\ Len(versions) = 1

\* the URL and the cache file name the claim gives for each tag
ExpectedURL ==
    [t \in ResolverTags |->
        CASE t = "v2.6.1" ->
               "https://github.com/golangci/golangci-lint/releases/download/v2.6.1/golangci-lint-2.6.1-checksums.txt"
          [] t = "2.5.0" ->
               "https://github.com/golangci/golangci-lint/releases/download/2.5.0/golangci-lint-2.5.0-checksums.txt"
          [] t = "vv2.6.0" ->
               "https://github.com/golangci/golangci-lint/releases/download/vv2.6.0/golangci-lint-v2.6.0-checksums.txt"
          [] t = "v" ->
               "https://github.com/golangci/golangci-lint/releases/download/v/golangci-lint--checksums.txt"]

ExpectedCacheFile ==
    [t \in ResolverTags |->
        CASE t = "v2.6.1" -> "v2.6.1.txt"
          [] t = "2.5.0" -> "2.5.0.txt"
          [] t = "vv2.6.0" -> "vv2.6.0.txt"
          [] t = "v" -> "v.txt"]

\* C18: URL derivation on a cache miss.  The URL asked of DownloadAsset is
\* .../releases/download/<tag>/golangci-lint-<version>-checksums.txt with
\* <version> the tag less one leading v, if it has one (a second v is kept,
\* a tag without v is unchanged), while the cache file read on a hit and
\* written after a download is <tag>.txt with the full tag.
C18_URLDerivation ==
    (unit.op = "loadFromCacheOrDownload" /\ unit.done)
    => LET file == ExpectedCacheFile[unit.input] IN
       /\ unit.output.called <=> ~unit.dir[file].exists
       /\ unit.output.called => unit.url = ExpectedURL[unit.input]
       /\ \A f \in DOMAIN unit.dir : f # file => unit.output.cache[f] = unit.dir[f]
       /\ (unit.output.called /\ unit.output.err = NoError
              /\ unit.output.cache[file].exists /\ unit.output.cache[file].data # <<>>)
            => unit.output.cache[file] = FileOf(unit.output.data)

\* tag vv2.6.0, not cached: downloaded from the URL with version v2.6.0 and
\* saved as vv2.6.0.txt
C18_Witness ==
    /\ unit.op = "loadFromCacheOrDownload"
    /\ unit.done
    /\ unit.input = "vv2.6.0"
    /\ unit.output.called
    /\ unit.url = ExpectedURL["vv2.6.0"]
    /\ unit.output.cache["vv2.6.0.txt"] = FileOf(<<"linux">>)
    /\ unit.output.data = <<"linux">>

\* what each configured path resolves to under each workspace root, written
\* out: an absolute path as it is, a relative one under the root
ExpectedPath(root, path) ==
    CASE path = "/absolute/cache" -> "/absolute/cache"
      [] path = "/absolute//output.bzl/" -> "/absolute//output.bzl/"
      [] path = "cache" /\ root = "/workspace" -> "/workspace/cache"
      [] path = "cache" /\ root = "/" -> "/cache"
      [] path = "output.bzl" /\ root = "/workspace" -> "/workspace/output.bzl"
      [] path = "output.bzl" /\ root = "/" -> "/output.bzl"
      [] path = "sub/../gen/./versions.bzl" /\ root = "/workspace"
           -> "/workspace/gen/versions.bzl"
      [] path = "sub/../gen/./versions.bzl" /\ root = "/" -> "/gen/versions.bzl"
      [] path = "" /\ root = "/workspace" -> "/workspace"
      [] path = "" /\ root = "/" -> "/"

\* C19: path resolution.  resolveAbsolutePaths returns the cache directory
\* and the output file unchanged when they are absolute and joined onto the
\* workspace root when they are relative, each whatever the other is.
C19_PathResolution ==
    (unit.op = "resolveAbsolutePaths" /\ unit.done)
    => /\ unit.output.absCacheDir
            = ExpectedPath(unit.input.WorkspaceRoot, unit.input.CacheDir)
       /\ unit.output.absOutputFile
            = ExpectedPath(unit.input.WorkspaceRoot, unit.input.OutputFile)

\* a relative cache directory with an absolute output file
C19_Witness ==
    /\ unit.op = "resolveAbsolutePaths"
    /\ unit.done
    /\ unit.input = [WorkspaceRoot |-> "/workspace", CacheDir |-> "cache",
                     OutputFile |-> "/absolute//output.bzl/"]
    /\ unit.output = [absCacheDir |-> "/workspace/cache",
                      absOutputFile |-> "/absolute//output.bzl/"]

\* the URLs DownloadAsset was asked for, in the order of the calls
RECURSIVE CallsIn(_)
CallsIn(log) ==
    IF log = <<>> THEN <<>>
    ELSE IF log[Len(log)].called
         THEN Append(CallsIn(SubSeq(log, 1, Len(log) - 1)), log[Len(log)].url)
         ELSE CallsIn(SubSeq(log, 1, Len(log) - 1))

\* the URLs of the releases of rs that were downloaded, in list order
RECURSIVE URLsOfCalled(_, _)
URLsOfCalled(rs, log) ==
    IF log = <<>> THEN <<>>
    ELSE LET n == Len(log)
             rest == URLsOfCalled(rs, SubSeq(log, 1, n - 1))
         IN  IF log[n].called THEN Append(rest, AssetURL(rs[n])) ELSE rest

\* C20: sequential processing.  processReleases handles the releases one at
\* a time in list order: the k-th release handled is the k-th of the list,
\* every iteration handles exactly the next release and is over (its release
\* resolved, parsed and appended or skipped) before the following one
\* begins, DownloadAsset is asked at most once per release and the requests
\* come in list order.
C20_Sequential ==
    /\ [](/\ Len(steps) <= Len(releases)
          /\ pc = "process" => Len(steps) = ri - 1
          /\ \A k \in 1..Len(steps) : steps[k].tag = releases[k]
          /\ CallsIn(steps) = URLsOfCalled(releases, steps)
          /\ Len(CallsIn(steps)) <= Len(releases)
          /\ Len(versions) <= Len(steps))
    /\ [][steps' # steps
            => /\ pc = "process"
               /\ Len(steps') = Len(steps) + 1
               /\ SubSeq(steps', 1, Len(steps)) = steps
               /\ steps'[Len(steps')].tag = releases[Len(steps')]
               /\ ri' = ri + 1
               /\ releases' = releases
               /\ \/ versions' = versions /\ ~steps'[Len(steps')].appended
                  \/ /\ steps'[Len(steps')].appended
                     /\ Len(versions') = Len(versions) + 1
                     /\ SubSeq(versions', 1, Len(versions)) = versions
                     /\ versions'[Len(versions')].Tag = releases[Len(steps')]]_vars
    /\ [][(versions' # versions \/ cache' # cache) => steps' # steps]_vars

\* two different releases were both downloaded, in list order
C20_Witness ==
    /\ releases = <<"v2.6.0", "v2.6.1">>
    /\ Len(steps) = 2
    /\ CallsIn(steps) = <<AssetURL("v2.6.0"), AssetURL("v2.6.1")>>
    /\ Len(versions) = 2

\* C22: PrepareTemplateData preserves the version list.  For every input list
\* the Versions sequence it returns has the length of the input and its i-th
\* element carries the Tag of the i-th input Version.
C22_PreservesList ==
    (unit.op = "PrepareTemplateData" /\ unit.done) =>
        /\ Len(unit.output.Versions) = Len(unit.input)
        /\ \A i \in 1..Len(unit.input) : unit.output.Versions[i].Tag = unit.input[i].Tag

\* PrepareTemplateData has returned for a list of two versions with different
\* tags
C22_Witness ==
    /\ unit.op = "PrepareTemplateData"
    /\ unit.done
    /\ Len(unit.input) = 2
    /\ unit.input[1].Tag # unit.input[2].Tag
    /\ Len(unit.output.Versions) = 2

\* the (os, arch) entries of a nested mapping
NestedEntries(byOS) ==
    UNION {{<<os, arch>> : arch \in DOMAIN byOS[os]} : os \in DOMAIN byOS}

\* C24: organizePlatformsByOS is a lossless regrouping.  For every flat mapping,
\* result[os][arch] = h exactly when the input maps Platform{os, arch} to h; the
\* number of (os, arch) entries of the result is the size of the input; no OS
\* key is present with an empty architecture map, and an empty input yields an
\* empty result.
C24_LosslessRegrouping ==
    (unit.op = "organizePlatformsByOS" /\ unit.done) =>
        LET in == unit.input
            out == unit.output
            oss == {p.OS : p \in PlatformPool} \cup DOMAIN out
            archs == {p.Arch : p \in PlatformPool} \cup UNION {DOMAIN out[o] : o \in DOMAIN out}
        IN  /\ \A os \in oss, arch \in archs, h \in {HashC, HashD} :
                    (os \in DOMAIN out /\ arch \in DOMAIN out[os] /\ out[os][arch] = h)
                    <=> ([OS |-> os, Arch |-> arch] \in DOMAIN in
                         /\ in[[OS |-> os, Arch |-> arch]] = h)
            /\ Cardinality(NestedEntries(out)) = Cardinality(DOMAIN in)
            /\ \A os \in DOMAIN out : DOMAIN out[os] # {}
            /\ (DOMAIN in = {} => out = EmptyMap)

\* organizePlatformsByOS has returned for a mapping with two architectures of
\* one OS, with different hashes, and a second OS
C24_Witness ==
    /\ unit.op = "organizePlatformsByOS"
    /\ unit.done
    /\ Cardinality(DOMAIN unit.input) = 3
    /\ \E p \in DOMAIN unit.input, q \in DOMAIN unit.input :
            p.OS = q.OS /\ p.Arch # q.Arch /\ unit.input[p] # unit.input[q]
    /\ Cardinality(DOMAIN unit.output) = 2

\* C23: a release with an empty tag is skipped by processReleases before any
\* resolution.  In the step that handles it no cache file is looked up, read or
\* created, DownloadAsset is not invoked and no Version is appended, and the
\* loop goes on with the next release of the list.
C23_EmptyTagSkipped ==
    [][(pc = "process" /\ ri <= Len(releases) /\ releases[ri] = "") =>
            /\ cache' = cache
            /\ versions' = versions
            /\ Len(steps') = Len(steps) + 1
            /\ LET st == steps'[Len(steps')] IN
                  ~st.hit /\ ~st.readOK /\ ~st.called /\ st.url = "" /\ ~st.appended
            /\ pc' = "process"
            /\ ri' = ri + 1
            /\ releases' = releases]_vars

\* processReleases has returned for a list whose first release has an empty
\* tag: that release left no trace and the release after it was resolved and
\* appended
C23_Witness ==
    /\ Processed
    /\ Len(releases) = 2
    /\ releases[1] = ""
    /\ releases[2] # ""
    /\ Len(steps) = 2
    /\ ~steps[1].called
    /\ steps[2].called
    /\ steps[2].appended
    /\ Len(versions) = 1

\* Run returned because the listing failed or because no Version was processed
EarlyFatal ==
    /\ pc = "done"
    /\ err \in {"failed to fetch releases", "no versions were successfully processed"}

\* C26: output untouched on early fatal errors.  When Run returns an error
\* because GetLatestReleases failed or because zero Versions were processed,
\* GenerateStarlarkFile has not been called (no template data, no call of it
\* failed, no file held open), no <output>.tmp was created, and the output
\* file, present or absent, is as it was before the run; after a listing
\* failure no release was resolved, so DownloadAsset was not invoked.
C26_EarlyFatalUntouched ==
    EarlyFatal =>
        /\ outFile = outBefore
        /\ tmpFile = tmpBefore
        /\ ~fOpen
        /\ templateData = NoTemplateData
        /\ failed \cap {"parseTemplate", "createTemp", "execute", "close", "rename",
                        "remove"} = {}
        /\ (err = "failed to fetch releases" =>
                /\ steps = <<>>
                /\ versions = <<>>
                /\ cache = cacheBefore)

\* Run returned "no versions" after a download that failed, an output file and
\* a stale temporary file being there before the run
C26_Witness ==
    /\ EarlyFatal
    /\ err = "no versions were successfully processed"
    /\ outBefore = FileOf(OldArtifact)
    /\ tmpBefore = FileOf(OldArtifact)
    /\ \E k \in 1..Len(steps) : steps[k].called /\ steps[k].resp.err

\* the lines of the manifest the scan loop accepts: they pass the filters and
\* their filename yields a platform
Accepted == Passing \ FailingExtraction

\* the accepted lines that extract to the platform of accepted line k
SamePlatform(k) ==
    {j \in Accepted :
        ExtractionOf[unit.input[j]].platform = ExtractionOf[unit.input[k]].platform}

\* C27: duplicate platforms in one manifest.  When several accepted lines of a
\* manifest extract to the same Platform (a .tar.gz and a .zip archive of one
\* os-arch, or a repeated line), the mapping ParseChecksumFile returns holds a
\* single entry for that Platform, with the hash of the last such line in
\* manifest order.  (With a scan error no mapping is returned.)
C27_LastWins ==
    (unit.op = "ParseChecksumFile" /\ unit.done /\ ~unit.err) =>
        /\ \A k \in Accepted :
              LET platform == ExtractionOf[unit.input[k]].platform
                  last == CHOOSE j \in SamePlatform(k) : \A i \in SamePlatform(k) : i <= j
              IN  /\ platform \in DOMAIN unit.output
                  /\ unit.output[platform] = FieldsOfLine[unit.input[last]][1]
        /\ Cardinality(DOMAIN unit.output)
             = Cardinality({ExtractionOf[unit.input[k]].platform : k \in Accepted})

\* a .zip line followed by a .tar.gz line of linux/amd64 with another hash:
\* one entry, holding the hash of the .tar.gz line
C27_Witness ==
    /\ unit.op = "ParseChecksumFile"
    /\ unit.done
    /\ ~unit.err
    /\ unit.input = <<"linuxzip", "linux">>
    /\ SamePlatform(1) = {1, 2}
    /\ DOMAIN unit.output = {PlatformOf("linux")}
    /\ unit.output[PlatformOf("linux")] = HashC
    /\ HashC # HashD

\* the step taken is a pass of processReleases over a release whose cache file
\* exists and cannot be read
ReadFailedStep ==
    /\ pc = "process"
    /\ ri <= Len(releases)
    /\ releases[ri] # ""
    /\ cache[CacheFileName(releases[ri])].exists
    /\ Len(steps') = Len(steps) + 1
    /\ ~steps'[Len(steps')].readOK

\* C28: no fallback from a broken cache entry.  If the cache path of a tag
\* exists but reading it fails, loadFromCacheOrDownload returns an error
\* without invoking DownloadAsset and without modifying the cache path, and
\* processReleases skips that release and goes on.
C28_NoFallback ==
    [][ReadFailedStep =>
            LET st == steps'[Len(steps')] IN
            /\ st.hit
            /\ st.loadErr = "failed to read cache file"
            /\ ~st.called
            /\ st.url = ""
            /\ cache' = cache
            /\ ~st.appended
            /\ versions' = versions
            /\ pc' = "process"
            /\ ri' = ri + 1]_vars

\* the cache file of the first release could not be read: nothing was
\* downloaded, the cache is as before, the release is missing from the
\* versions and the second release was appended
C28_Witness ==
    /\ Processed
    /\ Len(steps) = 2
    /\ steps[1].hit
    /\ ~steps[1].readOK
    /\ ~steps[1].called
    /\ steps[1].loadErr # NoError
    /\ cache[CacheFileName(steps[1].tag)] = cacheBefore[CacheFileName(steps[1].tag)]
    /\ steps[2].appended
    /\ VersionTags = <<steps[2].tag>>
    /\ steps[1].tag # steps[2].tag

\* the second run of processReleases has gone through the release list
SecondRunReturned == firstRun.done /\ pc = "process" /\ ri > Len(releases)

\* every download and every cache write of the steps in log succeeded
DownloadsAndWritesOK(log) ==
    \A k \in 1..Len(log) : log[k].called => (~log[k].resp.err /\ log[k].write = "ok")

\* every read of an existing cache file in log succeeded
ReadsOK(log) == \A k \in 1..Len(log) : log[k].hit => log[k].readOK

URLFile(url) ==
    LET slashes == {k \in 1..Len(url) : url[k] = 47}
        last == CHOOSE k \in slashes : \A j \in slashes : j <= k
    IN  SubSeq(url, last + 1, Len(url))

ExtensionDone == unit.op = "golangci_lint_extension" /\ unit.done

\* C29: hash/URL agreement end to end.  For every platform present in a
\* version's generated checksum mapping, the sha256 the module extension
\* passes to http_archive is the manifest hash of the very archive file named
\* by the download URL it builds for that platform, .zip platforms included.
C29_HashURLAgreement ==
    (ExtensionDone /\ unit.output.failed = "") =>
        \E k \in DOMAIN ReleaseAssets :
            /\ AssetNames[unit.output.version][k] = URLFile(unit.output.url)
            /\ AssetHashes[unit.output.version][k] = unit.output.sha256

\* the non-empty versions the config tags of all modules specify
RequestedVersions ==
    UNION {{unit.input.modules[m][i] : i \in DOMAIN unit.input.modules[m]} :
              m \in DOMAIN unit.input.modules} \ {""}

VersionConflict == "Multiple modules requested different golangci-lint versions"

\* C30: version selection in the module extension.  Going over all modules'
\* config tags in order, the selection fails if and only if two tags specify
\* different non-empty versions; otherwise the extension looks up the single
\* requested version, or the default version when no tag specifies one; tags
\* with an empty version do not affect the choice.
C30_VersionSelection ==
    ExtensionDone =>
        /\ unit.output.failed = VersionConflict <=> Cardinality(RequestedVersions) >= 2
        /\ \A v \in RequestedVersions :
              RequestedVersions = {v} =>
                  /\ unit.output.lookup = v
                  /\ unit.output.failed = "" => unit.output.version = v
        /\ RequestedVersions = {} =>
              /\ unit.output.lookup = ""
              /\ unit.output.failed = "" =>
                    unit.output.version = unit.input.generated.DefaultVersion

\* two modules, tags without a version before and after two tags that name
\* v2.6.0: the extension resolved v2.6.0, which is not the default
C30_Witness ==
    /\ ExtensionDone
    /\ unit.input.modules = <<<<"", "v2.6.0">>, <<"v2.6.0", "">>>>
    /\ unit.output.failed = ""
    /\ unit.output.lookup = "v2.6.0"
    /\ unit.output.version = "v2.6.0"
    /\ unit.input.generated.DefaultVersion = "v2.6.1"

BothReturned == \A p \in Invocations : inv[p].pc = "done"

\* the file at the output path, as FileOf / AbsentFile
RaceOutput ==
    IF paths[OutputPath] = 0 THEN AbsentFile ELSE FileOf(inodes[paths[OutputPath]])

\* C21: no inter-process locking.  Two concurrent invocations on one output
\* path both write to <output>.tmp: whenever both hold their temporary file
\* open it is one and the same file, and nothing keeps one from creating
\* (truncating) or renaming it while the other writes; two invocations that
\* overlapped this way never both succeed.  The interleaving of the claim,
\* with a final output that is the complete artifact of neither and an
\* invocation failing on rename, is C21_Witness.
C21_TempFileRace ==
    /\ \A p \in Invocations, q \in Invocations :
          (Holding(p) /\ Holding(q)) => inv[p].ino = inv[q].ino
    /\ (overlap /\ BothReturned) => \E p \in Invocations : inv[p].err # NoError

\* invocation 2 created <output>.tmp while invocation 1 was writing it;
\* invocation 1 renamed the file and returned nil, invocation 2 failed on
\* rename, and the output file holds pieces of both texts: it is the
\* complete artifact of neither and not the earlier output
C21_Witness ==
    /\ BothReturned
    /\ overlap
    /\ inv[1].err = NoError
    /\ inv[2].err = "failed to rename temp file"
    /\ paths[OutputPath] # 0
    /\ RaceOutput # FileOf(inv[1].text)
    /\ RaceOutput # FileOf(inv[2].text)
    /\ RaceOutput # FileOf(OldArtifact)
    /\ \E k \in DOMAIN RaceOutput.data : RaceOutput.data[k] = inv[1].text[2]
    /\ \E k \in DOMAIN RaceOutput.data : RaceOutput.data[k] \notin
            {inv[1].text[j] : j \in DOMAIN inv[1].text}

=============================================================================
